---------------------------- MODULE Spec2Model ----------------------------
(***************************************************************************)
(* A model of the chunk-boundary engine of chonkie-ts:                     *)
(*   - SentenceChunker (delimiter splitter, sentence accountant, window    *)
(*     selector with overlap), and                                         *)
(*   - RecursiveChunker (rule hierarchy, heuristic token estimate, merge). *)
(* Strings are sequences of one-character strings; indices and offsets     *)
(* keep the 0-based values of the source.                                  *)
(***************************************************************************)
EXTENDS Integers, Sequences, FiniteSets, TLC

VARIABLES
    chunker,    \* the SentenceChunker instance (its readonly fields)
    text,       \* argument of SentenceChunker.chunk
    sentences,  \* chunk(): const sentences
    tokenSums,  \* chunk(): const tokenSums
    chunks,     \* chunk(): const chunks
    pos,        \* chunk(): let pos
    pc,         \* position of the chunk() call: "entry", "loop", "done"
    rchunker,   \* the RecursiveChunker instance
    rtext,      \* argument of RecursiveChunker.chunk
    rchunks,    \* its result
    rpc,        \* position of the call: "entry", "done"
    merge,      \* a mergeSplits call on its own: its arguments and what it gave
    wasm,       \* the initWasm() / create() calls under way and the init() calls made
    createKind, \* which create() is called: "sentence", "recursive"
    options,    \* argument of create(options)
    instance,   \* what create() returned, or the error it threw
    cpc,        \* position of the create() call: "entry", "returned", "threw"
    wasmInitialized,  \* recursive.ts: let wasmInitialized
    ckind,      \* concurrent calls: "sentence" or "recursive" chunker
    shared,     \* the one chunker instance the concurrent calls are made on
    calls,      \* the activation of each concurrent chunk() call
    pipeline,   \* the Pipeline object: _steps, _isSaved, _description, _id
    remote,     \* what api.chonkie.ai stores for the pipeline's slug
    op,         \* the Pipeline call under way and the request it awaits
    last,       \* outcome of the latest finished Pipeline call
    prev,       \* outcome of the call finished before it
    nops        \* number of Pipeline calls made

vars == <<chunker, text, sentences, tokenSums, chunks, pos, pc,
          rchunker, rtext, rchunks, rpc, merge,
          createKind, options, instance, cpc, wasmInitialized, wasm,
          ckind, shared, calls,
          pipeline, remote, op, last, prev, nops>>

svars == <<chunker, text, sentences, tokenSums, chunks, pos, pc>>
rvars == <<rchunker, rtext, rchunks, rpc, merge>>
cvars == <<createKind, options, instance, cpc, wasmInitialized, wasm>>
kvars == <<ckind, shared, calls>>
pvars == <<pipeline, remote, op, last, prev, nops>>

---------------------------------------------------------------------------
(* Bounds of the model *)

MaxLen == 3          \* length of the enumerated input texts
MaxChunkSize == 3    \* largest enumerated chunkSize

---------------------------------------------------------------------------
(* Strings *)

Chars == {"a", ".", " "}

\* this.sep, the sentinel character
sep == "%"

Whitespace == {" "}

TextsUpTo(n) == UNION {[1..k -> Chars] : k \in 0..n}

Min(a, b) == IF a < b THEN a ELSE b
Max(a, b) == IF a > b THEN a ELSE b

\* String.prototype.slice(a, b) with 0 <= a, b
slice(s, a, b) == SubSeq(s, a + 1, Min(b, Len(s)))

RECURSIVE Concat(_)
Concat(parts) ==
    IF parts = <<>> THEN <<>> ELSE Head(parts) \o Concat(Tail(parts))

RECURSIVE Sum(_)
Sum(ns) == IF ns = <<>> THEN 0 ELSE Head(ns) + Sum(Tail(ns))

\* String.prototype.trim
RECURSIVE trimStart(_)
trimStart(s) ==
    IF s # <<>> /\ Head(s) \in Whitespace THEN trimStart(Tail(s)) ELSE s

RECURSIVE trimEnd(_)
trimEnd(s) ==
    IF s # <<>> /\ s[Len(s)] \in Whitespace
    THEN trimEnd(SubSeq(s, 1, Len(s) - 1)) ELSE s

trim(s) == trimEnd(trimStart(s))

MatchAt(t, c, i) ==
    /\ i + Len(c) - 1 <= Len(t)
    /\ \A k \in 1..Len(c) : t[i + k - 1] = c[k]

\* first 1-based position >= i where c occurs in t, 0 when there is none
IndexOf(t, c, i) ==
    IF \E j \in i..Len(t) : MatchAt(t, c, j)
    THEN CHOOSE j \in i..Len(t) :
            MatchAt(t, c, j) /\ \A k \in i..(j - 1) : ~MatchAt(t, c, k)
    ELSE 0

\* String.prototype.split(c) for a non-empty separator c
RECURSIVE split(_, _)
split(t, c) ==
    LET j == IndexOf(t, c, 1)
    IN IF j = 0 THEN <<t>>
       ELSE <<SubSeq(t, 1, j - 1)>> \o split(SubSeq(t, j + Len(c), Len(t)), c)

\* Array.prototype.join(s)
RECURSIVE join(_, _)
join(parts, s) ==
    IF parts = <<>> THEN <<>>
    ELSE IF Len(parts) = 1 THEN parts[1]
    ELSE parts[1] \o s \o join(Tail(parts), s)

---------------------------------------------------------------------------
(* The tokenizer adapter (external collaborator): countTokens,             *)
(* countTokensBatch, encode, decodeBatch.  Three deterministic tokenizers: *)
(* one token per character; one token per word (a maximal run of           *)
(* non-whitespace characters) and per whitespace character; and a byte     *)
(* pair encoding with a ranked merge table.  A token is the string it      *)
(* decodes to.                                                             *)

\* ranked merges of the "bpe" tokenizer: ". " < " a" < "a." < " a."
Merges ==
    << << <<".">>, <<" ">> >>,
       << <<" ">>, <<"a">> >>,
       << <<"a">>, <<".">> >>,
       << <<" ", "a">>, <<".">> >> >>

PairAt(toks, m, i) == i < Len(toks) /\ toks[i] = m[1] /\ toks[i + 1] = m[2]

\* merge every occurrence of the pair m, left to right
RECURSIVE MergePair(_, _)
MergePair(toks, m) ==
    IF Len(toks) < 2 THEN toks
    ELSE IF PairAt(toks, m, 1)
         THEN <<m[1] \o m[2]>> \o MergePair(SubSeq(toks, 3, Len(toks)), m)
         ELSE <<toks[1]>> \o MergePair(Tail(toks), m)

Applicable(toks, m) == \E i \in 1..(Len(toks) - 1) : PairAt(toks, m, i)

\* repeatedly apply the lowest-ranked applicable merge
RECURSIVE BpeLoop(_)
BpeLoop(toks) ==
    IF \E r \in 1..Len(Merges) : Applicable(toks, Merges[r])
    THEN LET r == CHOOSE q \in 1..Len(Merges) :
                    /\ Applicable(toks, Merges[q])
                    /\ \A p \in 1..(q - 1) : ~Applicable(toks, Merges[p])
         IN BpeLoop(MergePair(toks, Merges[r]))
    ELSE toks

CharTokens(t) == [i \in 1..Len(t) |-> <<t[i]>>]

\* words and single whitespace characters
RECURSIVE WordTokens(_, _)
WordTokens(t, cur) ==
    IF t = <<>> THEN (IF cur = <<>> THEN <<>> ELSE <<cur>>)
    ELSE IF Head(t) \in Whitespace
         THEN (IF cur = <<>> THEN <<>> ELSE <<cur>>)
              \o << <<Head(t)>> >> \o WordTokens(Tail(t), <<>>)
         ELSE WordTokens(Tail(t), Append(cur, Head(t)))

encode(tokenizer, t) ==
    IF tokenizer = "character" THEN CharTokens(t)
    ELSE IF tokenizer = "word" THEN WordTokens(t, <<>>)
    ELSE BpeLoop(CharTokens(t))

decode(tokens) == Concat(tokens)

decodeBatch(batch) == [i \in 1..Len(batch) |-> decode(batch[i])]

countTokens(tokenizer, t) == Len(encode(tokenizer, t))

countTokensBatch(tokenizer, ts) ==
    [i \in 1..Len(ts) |-> countTokens(tokenizer, ts[i])]

---------------------------------------------------------------------------
(* SentenceChunker *)

\* Bracket with the policy ignored: the delimiter is always replaced by the
\* sentinel alone (a faulty variant)
BracketDropsDelim(self, c) == <<sep>>

\* the replacement that brackets one delimiter c with the sentinel
Bracket(self, c) ==
    IF self.includeDelim = "prev" THEN c \o <<sep>>
    ELSE IF self.includeDelim = "next" THEN <<sep>> \o c
    ELSE <<sep>>

\* for (const c of this.delim) t = t.split(c).join(...)
RECURSIVE MarkDelims(_, _, _)
MarkDelims(self, t, delim) ==
    IF delim = <<>> THEN t
    ELSE MarkDelims(self, join(split(t, Head(delim)), Bracket(self, Head(delim))),
                    Tail(delim))

\* FoldSplits pushing current whatever its length (a faulty variant)
RECURSIVE FoldSplitsNoMinimum(_, _, _, _)
FoldSplitsNoMinimum(self, splits, out, current) ==
    IF splits = <<>> THEN <<out, current>>
    ELSE LET s == Head(splits)
         IN IF current = <<>>
            THEN FoldSplitsNoMinimum(self, Tail(splits), out, s)
            ELSE FoldSplitsNoMinimum(self, Tail(splits), Append(out, current), s)

\* for (const s of splits) { ... }: returns <<sentences, current>>
RECURSIVE FoldSplits(_, _, _, _)
FoldSplits(self, splits, out, current) ==
    IF splits = <<>> THEN <<out, current>>
    ELSE LET s == Head(splits)
         IN IF current = <<>>
            THEN FoldSplits(self, Tail(splits), out, s)
            ELSE IF Len(current) >= self.minCharactersPerSentence
                 THEN FoldSplits(self, Tail(splits), Append(out, current), s)
                 ELSE FoldSplits(self, Tail(splits), out, current \o s)

\* _splitText without the `if (current)` test before the last push (a
\* faulty variant)
_splitTextPushesLast(self, t) ==
    LET splits == split(MarkDelims(self, t, self.delim), <<sep>>)
        folded == FoldSplits(self, splits, <<>>, <<>>)
    IN Append(folded[1], folded[2])

_splitText(self, t) ==
    LET splits == split(MarkDelims(self, t, self.delim), <<sep>>)
        folded == FoldSplits(self, splits, <<>>, <<>>)
    IN IF folded[2] # <<>> THEN Append(folded[1], folded[2]) ELSE folded[1]

\* positions[i]: running sum of the lengths of the sentences before i
RECURSIVE Positions(_, _)
Positions(sentenceTexts, currentPos) ==
    IF sentenceTexts = <<>> THEN <<>>
    ELSE <<currentPos>>
         \o Positions(Tail(sentenceTexts), currentPos + Len(Head(sentenceTexts)))

_prepareSentences(self, t) ==
    LET sentenceTexts == _splitText(self, t)
        positions == Positions(sentenceTexts, 0)
        tokenCounts == countTokensBatch(self.tokenizer, sentenceTexts)
    IN [i \in 1..Len(sentenceTexts) |->
          [text |-> sentenceTexts[i],
           startIndex |-> positions[i],
           endIndex |-> positions[i] + Len(sentenceTexts[i]),
           tokenCount |-> tokenCounts[i]]]

\* _createChunk joining the sentence texts with a space (a faulty variant)
_createChunkJoinsWithSpace(self, sents) ==
    LET chunkText == join([i \in 1..Len(sents) |-> sents[i].text], <<" ">>)
    IN [text |-> chunkText,
        startIndex |-> sents[1].startIndex,
        endIndex |-> sents[Len(sents)].endIndex,
        tokenCount |-> countTokens(self.tokenizer, chunkText),
        sentences |-> sents]

_createChunk(self, sents) ==
    LET chunkText == Concat([i \in 1..Len(sents) |-> sents[i].text])
    IN [text |-> chunkText,
        startIndex |-> sents[1].startIndex,
        endIndex |-> sents[Len(sents)].endIndex,
        tokenCount |-> countTokens(self.tokenizer, chunkText),
        sentences |-> sents]

\* the while loop of _bisectLeft; arr is 0-based in the source
RECURSIVE BisectLoop(_, _, _, _)
BisectLoop(arr, value, lo, hi) ==
    IF lo < hi
    THEN LET mid == (lo + hi) \div 2
         IN IF arr[mid + 1] < value
            THEN BisectLoop(arr, value, mid + 1, hi)
            ELSE BisectLoop(arr, value, lo, mid)
    ELSE lo

_bisectLeft(arr, value, lo) == BisectLoop(arr, value, lo, Len(arr))

\* tokenSums: cumulative token counts, tokenSums[0] = 0
PrefixSums(sents) ==
    [i \in 1..(Len(sents) + 1) |->
        Sum([k \in 1..(i - 1) |-> sents[k].tokenCount])]

\* SplitIdx without the `- 1` after _bisectLeft (a faulty variant)
SplitIdxNoMinusOne(self, sents, sums, p) ==
    LET targetTokens == sums[p + 1] + self.chunkSize
        s1 == _bisectLeft(sums, targetTokens, p)
        s2 == Min(s1, Len(sents))
        s3 == Max(s2, p + 1)
    IN IF s3 - p < self.minSentencesPerChunk
       THEN IF p + self.minSentencesPerChunk <= Len(sents)
            THEN p + self.minSentencesPerChunk
            ELSE Len(sents)
       ELSE s3

\* SplitIdx without the minimum sentences handling (a faulty variant)
SplitIdxIgnoresMinimum(self, sents, sums, p) ==
    LET targetTokens == sums[p + 1] + self.chunkSize
        s1 == _bisectLeft(sums, targetTokens, p) - 1
        s2 == Min(s1, Len(sents))
    IN Max(s2, p + 1)

\* the split point of the chunk that starts at p
SplitIdx(self, sents, sums, p) ==
    LET targetTokens == sums[p + 1] + self.chunkSize
        s1 == _bisectLeft(sums, targetTokens, p) - 1
        s2 == Min(s1, Len(sents))
        s3 == Max(s2, p + 1)
    IN IF s3 - p < self.minSentencesPerChunk
       THEN IF p + self.minSentencesPerChunk <= Len(sents)
            THEN p + self.minSentencesPerChunk
            ELSE Len(sents)
       ELSE s3

\* OverlapLoop without the `+ 1` per sentence (a faulty variant)
RECURSIVE OverlapLoopNoSeparator(_, _, _, _, _)
OverlapLoopNoSeparator(self, sents, p, overlapIdx, overlapTokens) ==
    IF overlapIdx > p /\ overlapTokens < self.chunkOverlap
    THEN LET nextTokens == overlapTokens + sents[overlapIdx + 1].tokenCount
         IN IF nextTokens > self.chunkOverlap
            THEN overlapIdx
            ELSE OverlapLoopNoSeparator(self, sents, p, overlapIdx - 1, nextTokens)
    ELSE overlapIdx

\* the inner while loop that walks back over the overlap
RECURSIVE OverlapLoop(_, _, _, _, _)
OverlapLoop(self, sents, p, overlapIdx, overlapTokens) ==
    IF overlapIdx > p /\ overlapTokens < self.chunkOverlap
    THEN LET nextTokens == overlapTokens + sents[overlapIdx + 1].tokenCount + 1
         IN IF nextTokens > self.chunkOverlap
            THEN overlapIdx
            ELSE OverlapLoop(self, sents, p, overlapIdx - 1, nextTokens)
    ELSE overlapIdx

\* NextPos stepping one past the split point when there is no overlap (a
\* faulty variant)
NextPosSkipsOne(self, sents, p, splitIdx) ==
    IF self.chunkOverlap > 0 /\ splitIdx < Len(sents)
    THEN OverlapLoop(self, sents, p, splitIdx - 1, 0) + 1
    ELSE splitIdx + 1

\* NextPos walking back while overlapIdx >= pos (a faulty variant)
NextPosReusesFirst(self, sents, p, splitIdx) ==
    IF self.chunkOverlap > 0 /\ splitIdx < Len(sents)
    THEN OverlapLoop(self, sents, p - 1, splitIdx - 1, 0) + 1
    ELSE splitIdx

\* the position after the chunk [p, splitIdx)
NextPos(self, sents, p, splitIdx) ==
    IF self.chunkOverlap > 0 /\ splitIdx < Len(sents)
    THEN OverlapLoop(self, sents, p, splitIdx - 1, 0) + 1
    ELSE splitIdx

---------------------------------------------------------------------------
(* The split/merge primitive of @chonkiejs/chunk (external WASM module,    *)
(* declared in chunk.d.ts).  Offsets are 0-based half-open ranges <<a, b>>. *)

IsDelimiter(delimiters, ch) == \E k \in 1..Len(delimiters) : delimiters[k] = ch

\* the ranges between the delimiter characters; `delimiters` is a string of
\* delimiter characters, each of which splits on its own
RECURSIVE RawOffsets(_, _, _, _, _)
RawOffsets(t, delimiters, includeDelim, start, i) ==
    IF i >= Len(t) THEN << <<start, Len(t)>> >>
    ELSE IF IsDelimiter(delimiters, t[i + 1])
         THEN IF includeDelim = "prev"
              THEN << <<start, i + 1>> >>
                   \o RawOffsets(t, delimiters, includeDelim, i + 1, i + 1)
              ELSE IF includeDelim = "next"
                   THEN << <<start, i>> >>
                        \o RawOffsets(t, delimiters, includeDelim, i, i + 1)
                   ELSE << <<start, i>> >>
                        \o RawOffsets(t, delimiters, includeDelim, i + 1, i + 1)
         ELSE RawOffsets(t, delimiters, includeDelim, start, i + 1)

\* short ranges are folded into the following one; empty ranges vanish
RECURSIVE FoldOffsets(_, _, _, _)
FoldOffsets(raw, minChars, out, current) ==
    IF raw = <<>>
    THEN IF current[2] > current[1] THEN Append(out, current) ELSE out
    ELSE LET r == Head(raw)
         IN IF current[2] = current[1]
            THEN FoldOffsets(Tail(raw), minChars, out, r)
            ELSE IF current[2] - current[1] >= minChars
                 THEN FoldOffsets(Tail(raw), minChars, Append(out, current), r)
                 ELSE FoldOffsets(Tail(raw), minChars, out, <<current[1], r[2]>>)

split_offsets(t, delimiters, includeDelim, minChars) ==
    FoldOffsets(RawOffsets(t, delimiters, includeDelim, 0, 0), minChars,
                <<>>, <<0, 0>>)

\* greedy merge from piece i (0-based): <<end index, merged token count>>
RECURSIVE MergeRun(_, _, _, _, _)
MergeRun(tokenCounts, chunkSize, combineWhitespace, j, cur) ==
    IF j < Len(tokenCounts)
       /\ cur + tokenCounts[j + 1] + (IF combineWhitespace THEN 1 ELSE 0)
              <= chunkSize
    THEN MergeRun(tokenCounts, chunkSize, combineWhitespace, j + 1,
                  cur + tokenCounts[j + 1] + (IF combineWhitespace THEN 1 ELSE 0))
    ELSE <<j, cur>>

RECURSIVE MergeFrom(_, _, _, _)
MergeFrom(tokenCounts, chunkSize, combineWhitespace, i) ==
    IF i >= Len(tokenCounts) THEN <<>>
    ELSE LET run == MergeRun(tokenCounts, chunkSize, combineWhitespace,
                             i + 1, tokenCounts[i + 1])
         IN <<run>> \o MergeFrom(tokenCounts, chunkSize, combineWhitespace, run[1])

merge_splits(tokenCounts, chunkSize, combineWhitespace) ==
    LET runs == MergeFrom(tokenCounts, chunkSize, combineWhitespace, 0)
    IN [indices |-> [k \in 1..Len(runs) |-> runs[k][1]],
        tokenCounts |-> [k \in 1..Len(runs) |-> runs[k][2]]]

---------------------------------------------------------------------------
(* RecursiveChunker *)

\* a RecursiveLevel is [whitespace, delimiters, includeDelim]; a level
\* without delimiters holds the empty list here (the model has no level
\* with an empty delimiter list of its own)
undefined == <<>>

\* Math.floor(text.length / this.CHARS_PER_TOKEN), CHARS_PER_TOKEN = 6.5
FloorCharsPerToken(len) == (2 * len) \div 13

estimateTokenCount(self, t) ==
    LET estimate == Max(1, FloorCharsPerToken(Len(t)))
    IN IF estimate > self.chunkSize
       THEN self.chunkSize + 1
       ELSE countTokens(self.tokenizer, t)

\* for (let i = 0; i < encoded.length; i += this.chunkSize)
RECURSIVE TokenWindows(_, _, _)
TokenWindows(encoded, size, i) ==
    IF i < Len(encoded)
    THEN <<slice(encoded, i, i + size)>> \o TokenWindows(encoded, size, i + size)
    ELSE <<>>

Slices(t, offsets) ==
    [k \in 1..Len(offsets) |-> slice(t, offsets[k][1], offsets[k][2])]

splitText(self, t, level) ==
    IF level.whitespace
    THEN Slices(t, split_offsets(t, <<" ">>, "none", 0))
    ELSE IF level.delimiters # undefined
         THEN Slices(t, split_offsets(t, Concat(level.delimiters),
                         IF level.includeDelim = "prev" THEN "prev"
                         ELSE IF level.includeDelim = "next" THEN "next"
                         ELSE "none",
                         self.minCharactersPerChunk))
         ELSE decodeBatch(TokenWindows(encode(self.tokenizer, t), self.chunkSize, 0))

\* makeChunk with startIndex 0 whatever the offset (a faulty variant)
makeChunkAtZero(t, tokenCount, startOffset) ==
    [text |-> t, startIndex |-> 0, endIndex |-> Len(t), tokenCount |-> tokenCount]

makeChunk(t, tokenCount, startOffset) ==
    [text |-> t, startIndex |-> startOffset,
     endIndex |-> startOffset + Len(t), tokenCount |-> tokenCount]

\* the loop over result.indices: the merged strings
RECURSIVE MergedStrings(_, _, _, _)
MergedStrings(splits, indices, combineWhitespace, currentIndex) ==
    IF indices = <<>> THEN <<>>
    ELSE LET slicedSplits == slice(splits, currentIndex, Head(indices))
         IN <<join(slicedSplits, IF combineWhitespace THEN <<" ">> ELSE <<>>)>>
            \o MergedStrings(splits, Tail(indices), combineWhitespace, Head(indices))

\* returns <<merged, combinedTokenCounts>>, or "throw"
mergeSplits(self, splits, tokenCounts, combineWhitespace) ==
    IF Len(splits) = 0 \/ Len(tokenCounts) = 0 THEN << <<>>, <<>> >>
    ELSE IF Len(splits) # Len(tokenCounts) THEN "throw"
    ELSE IF \A k \in 1..Len(tokenCounts) : tokenCounts[k] > self.chunkSize
         THEN <<splits, tokenCounts>>
         ELSE LET result == merge_splits(tokenCounts, self.chunkSize, combineWhitespace)
              IN <<MergedStrings(splits, result.indices, combineWhitespace, 0),
                   result.tokenCounts>>

IsTokenLevel(level) == level.delimiters = undefined /\ ~level.whitespace

\* merged and combinedTokenCounts of recursiveChunk for one level
MergeLevel(self, currRule, splits, tokenCounts) ==
    IF currRule.delimiters = undefined /\ ~currRule.whitespace
    THEN <<splits, tokenCounts>>
    ELSE IF currRule.delimiters = undefined /\ currRule.whitespace
         THEN LET m == mergeSplits(self, splits, tokenCounts, TRUE)
              IN <<[k \in 1..Len(m[1]) |->
                      IF k = 1 THEN m[1][k] ELSE <<" ">> \o m[1][k]],
                   m[2]>>
         ELSE mergeSplits(self, splits, tokenCounts, FALSE)

RECURSIVE recursiveChunk(_, _, _, _)
RECURSIVE ProcessMerged(_, _, _, _, _, _)

\* the for loop over merged, from index i (1-based) at currentOffset
ProcessMerged(self, merged, combinedTokenCounts, level, currentOffset, i) ==
    IF i > Len(merged) THEN <<>>
    ELSE (IF combinedTokenCounts[i] > self.chunkSize
          THEN recursiveChunk(self, merged[i], level + 1, currentOffset)
          ELSE <<makeChunk(merged[i], combinedTokenCounts[i], currentOffset)>>)
         \o ProcessMerged(self, merged, combinedTokenCounts, level,
                          currentOffset + Len(merged[i]), i + 1)

recursiveChunk(self, t, level, startOffset) ==
    IF t = <<>> THEN <<>>
    ELSE IF level >= Len(self.rules)
         THEN <<makeChunk(t, estimateTokenCount(self, t), startOffset)>>
         ELSE LET currRule == self.rules[level + 1]
                  splits == splitText(self, t, currRule)
                  tokenCounts ==
                      [k \in 1..Len(splits) |-> estimateTokenCount(self, splits[k])]
                  m == MergeLevel(self, currRule, splits, tokenCounts)
              IN ProcessMerged(self, m[1], m[2], level, startOffset, 1)

---------------------------------------------------------------------------
(* Inputs of the sentence chunker *)

\* the checks of the private constructor
ValidSentenceConfig(c) ==
    /\ ~(c.chunkSize <= 0)
    /\ ~(c.chunkOverlap < 0)
    /\ ~(c.chunkOverlap >= c.chunkSize)
    /\ ~(c.minSentencesPerChunk <= 0)
    /\ ~(c.minCharactersPerSentence <= 0)
    /\ c.includeDelim \in {"prev", "next", "null"}

MinSentenceValues == {1, 2}
MinCharacterValues == {1, 2}
DelimValues ==
    { << <<".">> >>,
      << <<".", " ">> >>,
      << <<".">>, <<" ">> >>,
      << <<".", " ">>, <<"a", ".">> >> }
SentenceTokenizers == {"character", "bpe"}

SentenceConfigs ==
    {c \in [chunkSize : 1..MaxChunkSize,
            chunkOverlap : 0..MaxChunkSize,
            minSentencesPerChunk : MinSentenceValues,
            minCharactersPerSentence : MinCharacterValues,
            delim : DelimValues,
            includeDelim : {"prev", "next", "null"},
            tokenizer : SentenceTokenizers] : ValidSentenceConfig(c)}

\* SentenceChunker.create() with no options, on the character tokenizer
DefaultSentenceConfig ==
    [chunkSize |-> 512, chunkOverlap |-> 0, minSentencesPerChunk |-> 1,
     minCharactersPerSentence |-> 12,
     delim |-> << <<".", " ">>, <<"!", " ">>, <<"?", " ">>, <<"\n">> >>,
     includeDelim |-> "prev", tokenizer |-> "character"]

\* "Hi. Bye."
HiBye == <<"H", "i", ".", " ", "B", "y", "e", ".">>

\* four sentences of 3, 4, 5 and 2 characters
Text3452 ==
    <<"a", "a", ".", "a", "a", "a", ".", "a", "a", "a", "a", ".", "a", ".">>

\* "a. a. a"
TextBpe == <<"a", ".", " ", "a", ".", " ", "a">>

\* "..a.": sentences of 1, 1 and 2 characters
Text112 == <<".", ".", "a", ".">>

\* the worked examples: a configuration and a text each
SentenceExamples ==
    { [self |-> [DefaultSentenceConfig EXCEPT
                    !.chunkSize = 3, !.chunkOverlap = 2, !.delim = << <<".">> >>,
                    !.minCharactersPerSentence = 1],
       text |-> Text112],
      [self |-> [DefaultSentenceConfig EXCEPT
                    !.delim = << <<".", " ">> >>,
                    !.minCharactersPerSentence = 1],
       text |-> HiBye],
      [self |-> [DefaultSentenceConfig EXCEPT
                    !.chunkSize = 7, !.delim = << <<".">> >>,
                    !.minCharactersPerSentence = 1],
       text |-> Text3452],
      [self |-> [DefaultSentenceConfig EXCEPT
                    !.chunkSize = 4, !.delim = << <<".">> >>,
                    !.minCharactersPerSentence = 1, !.tokenizer = "bpe"],
       text |-> TextBpe] }

SentenceInputs ==
    {[self |-> c, text |-> t] : c \in SentenceConfigs, t \in TextsUpTo(MaxLen)}
    \cup SentenceExamples

---------------------------------------------------------------------------
(* SentenceChunker.chunk as a state machine *)

\* no mergeSplits call of its own is made
NoMerge ==
    [splits |-> <<>>, tokenCounts |-> <<>>, combineWhitespace |-> FALSE, result |-> "none"]

RIdle ==
    /\ rchunker = [chunkSize |-> 1, rules |-> <<>>,
                   minCharactersPerChunk |-> 1, tokenizer |-> "character"]
    /\ rtext = <<>>
    /\ rchunks = <<>>
    /\ rpc = "idle"
    /\ merge = NoMerge

\* no Pipeline object is in use
PIdle ==
    /\ pipeline = [isSaved |-> FALSE]
    /\ remote = [exists |-> FALSE]
    /\ op = [name |-> "none", stage |-> "none"]
    /\ last = [name |-> "none"]
    /\ prev = [name |-> "none"]
    /\ nops = 0

\* no concurrent calls are under way
KIdle ==
    /\ ckind = "none"
    /\ shared = [chunkSize |-> 0]
    /\ calls = <<>>

\* no create() call is under way
CIdle ==
    /\ createKind = "none"
    /\ options = [chunkSize |-> [has |-> FALSE, v |-> 0]]
    /\ instance = [error |-> ""]
    /\ cpc = "idle"
    /\ wasmInitialized = FALSE
    /\ wasm = [started |-> 0]

SentenceInit ==
    /\ \E in \in SentenceInputs : chunker = in.self /\ text = in.text
    /\ sentences = <<>>
    /\ tokenSums = <<>>
    /\ chunks = <<>>
    /\ pos = 0
    /\ pc = "entry"
    /\ RIdle
    /\ CIdle
    /\ KIdle
    /\ PIdle

\* chunk(), up to the while loop
ChunkBegin ==
    /\ pc = "entry"
    /\ IF trim(text) = <<>>
       THEN /\ pc' = "done"
            /\ UNCHANGED <<sentences, tokenSums>>
       ELSE LET prepared == _prepareSentences(chunker, text)
            IN /\ sentences' = prepared
               /\ IF Len(prepared) = 0
                  THEN pc' = "done" /\ UNCHANGED tokenSums
                  ELSE pc' = "loop" /\ tokenSums' = PrefixSums(prepared)
    /\ UNCHANGED <<chunker, text, chunks, pos>>
    /\ UNCHANGED <<rvars, cvars, kvars, pvars>>

\* one iteration of while (pos < sentences.length)
ChunkIterate ==
    /\ pc = "loop"
    /\ pos < Len(sentences)
    /\ LET splitIdx == SplitIdx(chunker, sentences, tokenSums, pos)
           chunkSentences == slice(sentences, pos, splitIdx)
       IN /\ chunks' = Append(chunks, _createChunk(chunker, chunkSentences))
          /\ pos' = NextPos(chunker, sentences, pos, splitIdx)
    /\ UNCHANGED <<chunker, text, sentences, tokenSums, pc>>
    /\ UNCHANGED <<rvars, cvars, kvars, pvars>>

\* return chunks
ChunkReturn ==
    /\ pc = "loop"
    /\ ~(pos < Len(sentences))
    /\ pc' = "done"
    /\ UNCHANGED <<chunker, text, sentences, tokenSums, chunks, pos>>
    /\ UNCHANGED <<rvars, cvars, kvars, pvars>>

SentenceNext == ChunkBegin \/ ChunkIterate \/ ChunkReturn

SentenceSpec == SentenceInit /\ [][SentenceNext]_vars

---------------------------------------------------------------------------
(* The while loop of SentenceChunker.chunk over any token counts.  create() *)
(* and the constructor accept a Tokenizer object of the caller, so the      *)
(* counts _prepareSentences stores can be any non-negative numbers, zero    *)
(* included.                                                                *)

MaxSentences == 4    \* most sentences in the enumerated sentence lists
MaxTokens == 2       \* largest enumerated tokenCount of a sentence

WindowConfigs ==
    {c \in [chunkSize : 1..MaxChunkSize,
            chunkOverlap : 0..MaxChunkSize,
            minSentencesPerChunk : MinSentenceValues,
            minCharactersPerSentence : {1},
            delim : {<< <<".">> >>},
            includeDelim : {"prev"},
            tokenizer : {"caller"}] : ValidSentenceConfig(c)}

\* the sentences "a", "a", ... of the text "aa...", with the given counts
WindowSentences(counts) ==
    [i \in 1..Len(counts) |->
        [text |-> <<"a">>, startIndex |-> i - 1, endIndex |-> i,
         tokenCount |-> counts[i]]]

\* chunk() at `let pos = 0`
WindowInit ==
    /\ chunker \in WindowConfigs
    /\ \E n \in 1..MaxSentences : \E counts \in [1..n -> 0..MaxTokens] :
          /\ sentences = WindowSentences(counts)
          /\ text = [i \in 1..n |-> "a"]
    /\ tokenSums = PrefixSums(sentences)
    /\ chunks = <<>>
    /\ pos = 0
    /\ pc = "loop"
    /\ RIdle
    /\ CIdle
    /\ KIdle
    /\ PIdle

\* one iteration of while (pos < sentences.length); of the chunk pushed,
\* the sentences are kept (its text and tokenCount are the tokenizer's)
WindowIterate ==
    /\ pc = "loop"
    /\ pos < Len(sentences)
    /\ LET splitIdx == SplitIdx(chunker, sentences, tokenSums, pos)
           chunkSentences == slice(sentences, pos, splitIdx)
       IN /\ chunks' = Append(chunks, [sentences |-> chunkSentences])
          /\ pos' = NextPos(chunker, sentences, pos, splitIdx)
    /\ UNCHANGED <<chunker, text, sentences, tokenSums, pc>>
    /\ UNCHANGED <<rvars, cvars, kvars, pvars>>

WindowNext == WindowIterate \/ ChunkReturn

WindowSpec == WindowInit /\ [][WindowNext]_vars

---------------------------------------------------------------------------
(* Vocabulary of the properties of SentenceChunker.chunk *)

N == Len(sentences)

HasSep(t) == \E i \in 1..Len(t) : t[i] = sep

Blank(t) == trim(t) = <<>>

\* 0-based index in `sentences` of a sentence record (sentences are
\* non-empty, so the start offset identifies the sentence)
SentIndex(s) ==
    CHOOSE i \in 0..(N - 1) : sentences[i + 1].startIndex = s.startIndex

\* the range [ChunkPos(c), ChunkSplit(c)) of sentences a chunk covers
ChunkPos(c) == SentIndex(c.sentences[1])
ChunkSplit(c) == ChunkPos(c) + Len(c.sentences)

\* sum of the token counts of sentences a .. b-1
RunTokens(a, b) == tokenSums[b + 1] - tokenSums[a + 1]

SentenceTokens(c) == Sum([i \in 1..Len(c.sentences) |-> c.sentences[i].tokenCount])

ChunkTexts == Concat([i \in 1..Len(chunks) |-> chunks[i].text])

\* the end of the longest run of sentences from p whose token counts sum
\* to at most chunkSize, one sentence at least
LongestRun(p) ==
    CHOOSE e \in (p + 1)..N :
        /\ e = p + 1 \/ RunTokens(p, e) <= chunker.chunkSize
        /\ \A f \in (e + 1)..N : RunTokens(p, f) > chunker.chunkSize

Ranges == [i \in 1..Len(chunks) |-> <<ChunkPos(chunks[i]), ChunkSplit(chunks[i])>>]

---------------------------------------------------------------------------
(* Properties of SentenceChunker, checked under SentenceSpec *)

Is3452Example ==
    /\ text = Text3452
    /\ chunker.chunkSize = 7
    /\ chunker.minSentencesPerChunk = 1
    /\ chunker.chunkOverlap = 0
    /\ chunker.tokenizer = "character"

\* C1 (as claimed): with minSentencesPerChunk = 1 and chunkOverlap = 0 the
\* chunk that starts at sentence pos covers the longest run of sentences
\* whose token counts sum to at most chunkSize (a sum equal to chunkSize is
\* accepted, one sentence is always taken); token counts [3,4,5,2] with
\* chunkSize = 7 give the three chunks {0,1}, {2}, {3}.
C1_LongestRunWithinBudget ==
    (chunker.minSentencesPerChunk = 1 /\ chunker.chunkOverlap = 0) =>
        /\ \A i \in 1..Len(chunks) :
              ChunkSplit(chunks[i]) = LongestRun(ChunkPos(chunks[i]))
        /\ (Is3452Example /\ pc = "done") =>
              Ranges = << <<0, 2>>, <<2, 3>>, <<3, 4>> >>

\* C2 (as claimed): under any valid configuration, a chunk whose tokenCount
\* is greater than chunkSize contains exactly one sentence, and that
\* sentence's own tokenCount is greater than chunkSize.
C2_SentenceAtomicity ==
    \A i \in 1..Len(chunks) :
        chunks[i].tokenCount > chunker.chunkSize =>
            /\ Len(chunks[i].sentences) = 1
            /\ chunks[i].sentences[1].tokenCount > chunker.chunkSize

\* C2 (amended): a chunk whose sentences' token counts sum to more than
\* chunkSize contains at most minSentencesPerChunk sentences; and with
\* minSentencesPerChunk = 1 and a tokenizer whose counts add up over
\* concatenation (the character tokenizer), a chunk whose tokenCount is
\* greater than chunkSize is exactly one sentence whose own tokenCount is
\* greater than chunkSize.
C2_SentenceAtomicityAmended ==
    \A i \in 1..Len(chunks) :
        /\ SentenceTokens(chunks[i]) > chunker.chunkSize =>
              Len(chunks[i].sentences) <= chunker.minSentencesPerChunk
        /\ (/\ chunker.minSentencesPerChunk = 1
            /\ chunker.tokenizer = "character"
            /\ chunks[i].tokenCount > chunker.chunkSize) =>
              /\ Len(chunks[i].sentences) = 1
              /\ chunks[i].sentences[1].tokenCount > chunker.chunkSize

\* C2 witness: a finished call, minSentencesPerChunk = 1, character
\* tokenizer, with an oversized single-sentence chunk next to another chunk.
C2_Witness ==
    /\ pc = "done"
    /\ chunker.minSentencesPerChunk = 1
    /\ chunker.tokenizer = "character"
    /\ Len(chunks) >= 2
    /\ \E i \in 1..Len(chunks) : chunks[i].tokenCount > chunker.chunkSize

\* C4 (as claimed): with policy 'prev' and a text without the sentinel, the
\* texts of the returned chunks concatenate to the input text, for every
\* valid configuration, chunkOverlap > 0 included.  Stated for the texts
\* that have a non-whitespace character (chunk() returns no chunk at all for
\* a whitespace-only text).
C4_Reconstruction ==
    (/\ pc = "done"
     /\ chunker.includeDelim = "prev"
     /\ ~HasSep(text)
     /\ ~Blank(text)) =>
        ChunkTexts = text

\* C4 (amended): with policy 'prev', chunkOverlap = 0 and a text without the
\* sentinel that is empty or has a non-whitespace character, the texts of
\* the returned chunks concatenate to the input text.
C4_ReconstructionAmended ==
    (/\ pc = "done"
     /\ chunker.includeDelim = "prev"
     /\ ~HasSep(text)
     /\ chunker.chunkOverlap = 0
     /\ (text = <<>> \/ ~Blank(text))) =>
        ChunkTexts = text

\* C4 witness: a finished call under 'prev' without overlap that returned
\* several chunks, one of them of several sentences.
C4_Witness ==
    /\ pc = "done"
    /\ chunker.includeDelim = "prev"
    /\ chunker.chunkOverlap = 0
    /\ Len(chunks) >= 2
    /\ \E i \in 1..Len(chunks) : Len(chunks[i].sentences) >= 2
    /\ ChunkTexts = text

\* C5: every sentence is in at least one returned chunk and chunks come
\* left to right: the first chunk starts at sentence 0, the last ends at
\* sentence N, and each chunk starts no later than its predecessor ends.
C5_EverySentenceCovered ==
    (pc = "done" /\ N > 0) =>
        /\ Len(chunks) >= 1
        /\ ChunkPos(chunks[1]) = 0
        /\ ChunkSplit(chunks[Len(chunks)]) = N
        /\ \A i \in 1..(Len(chunks) - 1) :
              /\ ChunkPos(chunks[i + 1]) <= ChunkSplit(chunks[i])
              /\ ChunkPos(chunks[i + 1]) >= ChunkPos(chunks[i])
        /\ \A k \in 0..(N - 1) :
              \E i \in 1..Len(chunks) :
                  ChunkPos(chunks[i]) <= k /\ k < ChunkSplit(chunks[i])

\* C5 witness: a finished call in which overlap moved the cursor back.
C5_Witness ==
    /\ pc = "done"
    /\ \E i \in 1..(Len(chunks) - 1) :
          ChunkPos(chunks[i + 1]) < ChunkSplit(chunks[i])

\* C6: every chunk except possibly the last returned one contains at least
\* minSentencesPerChunk sentences.
C6_MinimumSentences ==
    \A i \in 1..Len(chunks) :
        Len(chunks[i].sentences) < chunker.minSentencesPerChunk =>
            i = Len(chunks) /\ ~(pos < N)

\* C6 witness: minSentencesPerChunk = 2 stretched a chunk that is not the
\* last beyond the token budget.
C6_Witness ==
    /\ pc = "done"
    /\ chunker.minSentencesPerChunk = 2
    /\ Len(chunks) >= 2
    /\ SentenceTokens(chunks[1]) > chunker.chunkSize

\* C7: every chunk has startIndex < endIndex, and start offsets never go
\* back from one chunk to the next.
C7_OffsetMonotonicity ==
    /\ \A i \in 1..Len(chunks) : chunks[i].startIndex < chunks[i].endIndex
    /\ \A i \in 1..(Len(chunks) - 1) :
          chunks[i + 1].startIndex >= chunks[i].startIndex

\* C7 witness: a finished call with a chunk that starts before its
\* predecessor ends.
C7_Witness ==
    /\ pc = "done"
    /\ \E i \in 1..(Len(chunks) - 1) :
          chunks[i + 1].startIndex < chunks[i].endIndex

\* C8 (as claimed): for a non-blank text and any inclusion policy, every
\* chunk's text is text.slice(startIndex, endIndex), the first chunk starts
\* at 0 and the last ends at text.length.
C8_OffsetsInOriginalText ==
    (pc = "done" /\ ~Blank(text) /\ ~HasSep(text) /\ Len(chunks) >= 1) =>
        /\ \A i \in 1..Len(chunks) :
              chunks[i].text = slice(text, chunks[i].startIndex, chunks[i].endIndex)
        /\ chunks[1].startIndex = 0
        /\ chunks[Len(chunks)].endIndex = Len(text)

---------------------------------------------------------------------------
(* The delimiter splitter as a function of the text *)

\* mark[i] = TRUE when character i of t lies in a removed delimiter
\* occurrence.  Occurrences of c are taken left to right, without overlap,
\* among the characters no earlier delimiter has taken.
RECURSIVE MarkOccurrences(_, _, _, _)
MarkOccurrences(t, c, i, mark) ==
    IF i > Len(t) THEN mark
    ELSE IF MatchAt(t, c, i) /\ \A k \in i..(i + Len(c) - 1) : ~mark[k]
         THEN MarkOccurrences(t, c, i + Len(c),
                  [k \in 1..Len(t) |-> mark[k] \/ (i <= k /\ k < i + Len(c))])
         ELSE MarkOccurrences(t, c, i + 1, mark)

RECURSIVE MarkAll(_, _, _)
MarkAll(t, delim, mark) ==
    IF delim = <<>> THEN mark
    ELSE MarkAll(t, Tail(delim), MarkOccurrences(t, Head(delim), 1, mark))

RECURSIVE Unmarked(_, _, _)
Unmarked(t, mark, i) ==
    IF i > Len(t) THEN <<>>
    ELSE (IF mark[i] THEN <<>> ELSE <<t[i]>>) \o Unmarked(t, mark, i + 1)

\* the text with the delimiter occurrences removed
WithoutDelims(t, delim) ==
    Unmarked(t, MarkAll(t, delim, [k \in 1..Len(t) |-> FALSE]), 1)

Fragments == _splitText(chunker, text)

IsHiByeExample ==
    /\ text = HiBye
    /\ chunker.delim = << <<".", " ">> >>
    /\ chunker.includeDelim = "prev"
    /\ chunker.minCharactersPerSentence = 1

\* C10: for a text without the sentinel, the fragments of _splitText
\* concatenate to the text under 'prev' and under 'next', and to the text
\* without its delimiter occurrences under null; the sentences chunk() works
\* on are these fragments; "Hi. Bye." with delimiter ". ", 'prev' and
\* minCharactersPerSentence = 1 gives "Hi. ", "Bye.".
C10_SplitRoundTrip ==
    ~HasSep(text) =>
        /\ chunker.includeDelim \in {"prev", "next"} => Concat(Fragments) = text
        /\ chunker.includeDelim = "null" =>
              Concat(Fragments) = WithoutDelims(text, chunker.delim)
        /\ (pc # "entry" /\ ~Blank(text)) =>
              [i \in 1..N |-> sentences[i].text] = Fragments
        /\ IsHiByeExample =>
              Fragments = << <<"H", "i", ".", " ">>, <<"B", "y", "e", ".">> >>

\* C10 witness: chunk() split a text under null into several sentences,
\* dropping a delimiter.
C10_Witness ==
    /\ pc = "loop"
    /\ chunker.includeDelim = "null"
    /\ N >= 2
    /\ Len(Concat(Fragments)) < Len(text)

---------------------------------------------------------------------------
(* RecursiveChunker.chunk as a state machine *)

MaxRLen == 4         \* length of the enumerated texts of the recursive chunker

TokenLevel == [whitespace |-> FALSE, delimiters |-> undefined, includeDelim |-> "prev"]
WhitespaceLevel == [whitespace |-> TRUE, delimiters |-> undefined, includeDelim |-> "prev"]
DelimLevel(d, inc) == [whitespace |-> FALSE, delimiters |-> d, includeDelim |-> inc]

RuleValues ==
    { <<>>,
      <<TokenLevel>>,
      <<DelimLevel(<< <<".">> >>, "prev"), TokenLevel>>,
      <<DelimLevel(<< <<".", " ">> >>, "prev"), WhitespaceLevel, TokenLevel>>,
      <<WhitespaceLevel, TokenLevel>>,
      <<DelimLevel(<< <<".">> >>, "next"), WhitespaceLevel>>,
      <<DelimLevel(<< <<".">> >>, "none")>> }

RecursiveTokenizers == {"character", "word"}

\* the checks of the private constructor
ValidRecursiveConfig(c) ==
    /\ ~(c.chunkSize <= 0)
    /\ ~(c.minCharactersPerChunk <= 0)

RecursiveConfigs ==
    {c \in [chunkSize : 1..MaxChunkSize,
            rules : RuleValues,
            minCharactersPerChunk : {1, 2},
            tokenizer : RecursiveTokenizers] : ValidRecursiveConfig(c)}

\* a single word of thirteen characters
LongWord == [i \in 1..13 |-> "a"]

RecursiveExamples ==
    { [self |-> [chunkSize |-> 1, rules |-> <<TokenLevel>>,
                 minCharactersPerChunk |-> 24, tokenizer |-> tk],
       text |-> LongWord] : tk \in RecursiveTokenizers }

RecursiveInputs ==
    {[self |-> c, text |-> t] : c \in RecursiveConfigs, t \in TextsUpTo(MaxRLen)}
    \cup RecursiveExamples

SIdle ==
    /\ chunker = DefaultSentenceConfig
    /\ text = <<>>
    /\ sentences = <<>>
    /\ tokenSums = <<>>
    /\ chunks = <<>>
    /\ pos = 0
    /\ pc = "idle"

RecursiveInit ==
    /\ \E in \in RecursiveInputs : rchunker = in.self /\ rtext = in.text
    /\ rchunks = <<>>
    /\ rpc = "entry"
    /\ merge = NoMerge
    /\ SIdle
    /\ CIdle
    /\ KIdle
    /\ PIdle

\* chunk(text): return this.recursiveChunk(text, 0, 0)
RecursiveChunk ==
    /\ rpc = "entry"
    /\ rchunks' = recursiveChunk(rchunker, rtext, 0, 0)
    /\ rpc' = "done"
    /\ UNCHANGED <<rchunker, rtext, merge>>
    /\ UNCHANGED <<svars, cvars, kvars, pvars>>

RecursiveNext == RecursiveChunk

RecursiveSpec == RecursiveInit /\ [][RecursiveNext]_vars

---------------------------------------------------------------------------
(* mergeSplits called on its own, on lists of any two lengths *)

MaxSplits == 2

MergeSplitValues == {<<"a">>, <<"a", ".">>}

MergeCountValues == 1..MaxChunkSize

MergeConfigs == {c \in RecursiveConfigs : c.rules = <<WhitespaceLevel, TokenLevel>> /\ c.minCharactersPerChunk = 1 /\ c.tokenizer = "character"}

MergeInit ==
    /\ rchunker \in MergeConfigs
    /\ \E n, m \in 0..MaxSplits :
          \E splits \in [1..n -> MergeSplitValues], tokenCounts \in [1..m -> MergeCountValues],
             combineWhitespace \in BOOLEAN :
                merge = [NoMerge EXCEPT !.splits = splits, !.tokenCounts = tokenCounts,
                                        !.combineWhitespace = combineWhitespace]
    /\ rtext = <<>>
    /\ rchunks = <<>>
    /\ rpc = "entry"
    /\ SIdle
    /\ CIdle
    /\ KIdle
    /\ PIdle

\* this.mergeSplits(splits, tokenCounts, combineWhitespace)
MergeSplitsCall ==
    /\ rpc = "entry"
    /\ merge' = [merge EXCEPT !.result = mergeSplits(rchunker, merge.splits, merge.tokenCounts,
                                                     merge.combineWhitespace)]
    /\ rpc' = "done"
    /\ UNCHANGED <<rchunker, rtext, rchunks>>
    /\ UNCHANGED <<svars, cvars, kvars, pvars>>

MergeNext == MergeSplitsCall

MergeSpec == MergeInit /\ [][MergeNext]_vars

---------------------------------------------------------------------------
(* SentenceChunker.create and RecursiveChunker.create *)

\* an option of the options object: left out, or given with a value of S
Opt(S) == {[has |-> FALSE, v |-> CHOOSE x \in S : TRUE]}
          \cup {[has |-> TRUE, v |-> x] : x \in S}

\* const { name = dflt } = options
Default(o, dflt) == IF o.has THEN o.v ELSE dflt

\* a delim argument: null, or a list of strings
NullDelim == [isNull |-> TRUE, items |-> <<>>]
DelimList(d) == [isNull |-> FALSE, items |-> d]

\* the constructor that tests chunkOverlap > chunkSize instead of
\* chunkOverlap >= chunkSize (a faulty variant)
SentenceChunkerAllowsFullOverlap(tokenizer, chunkSize, chunkOverlap, minSentencesPerChunk, minCharactersPerSentence, delim, includeDelim) ==
    IF chunkSize <= 0 THEN [error |-> "chunkSize must be greater than 0"]
    ELSE IF chunkOverlap < 0 THEN [error |-> "chunkOverlap must be non-negative"]
    ELSE IF chunkOverlap > chunkSize
         THEN [error |-> "chunkOverlap must be less than chunkSize"]
    ELSE IF minSentencesPerChunk <= 0
         THEN [error |-> "minSentencesPerChunk must be greater than 0"]
    ELSE IF minCharactersPerSentence <= 0
         THEN [error |-> "minCharactersPerSentence must be greater than 0"]
    ELSE IF delim.isNull
         THEN [error |-> "delim must be a list of strings or a string"]
    ELSE IF includeDelim \notin {"prev", "next", "null"}
         THEN [error |-> "includeDelim must be 'prev', 'next' or null"]
    ELSE [chunkSize |-> chunkSize, chunkOverlap |-> chunkOverlap,
          minSentencesPerChunk |-> minSentencesPerChunk,
          minCharactersPerSentence |-> minCharactersPerSentence,
          delim |-> delim.items, includeDelim |-> includeDelim,
          tokenizer |-> tokenizer]

\* the private constructor of SentenceChunker: the error thrown, or the
\* fields of the new object (approximate only triggers a warning)
SentenceChunkerConstructor(tokenizer, chunkSize, chunkOverlap, minSentencesPerChunk, minCharactersPerSentence, delim, includeDelim) ==
    IF chunkSize <= 0 THEN [error |-> "chunkSize must be greater than 0"]
    ELSE IF chunkOverlap < 0 THEN [error |-> "chunkOverlap must be non-negative"]
    ELSE IF chunkOverlap >= chunkSize
         THEN [error |-> "chunkOverlap must be less than chunkSize"]
    ELSE IF minSentencesPerChunk <= 0
         THEN [error |-> "minSentencesPerChunk must be greater than 0"]
    ELSE IF minCharactersPerSentence <= 0
         THEN [error |-> "minCharactersPerSentence must be greater than 0"]
    ELSE IF delim.isNull
         THEN [error |-> "delim must be a list of strings or a string"]
    ELSE IF includeDelim \notin {"prev", "next", "null"}
         THEN [error |-> "includeDelim must be 'prev', 'next' or null"]
    ELSE [chunkSize |-> chunkSize, chunkOverlap |-> chunkOverlap,
          minSentencesPerChunk |-> minSentencesPerChunk,
          minCharactersPerSentence |-> minCharactersPerSentence,
          delim |-> delim.items, includeDelim |-> includeDelim,
          tokenizer |-> tokenizer]

\* the private constructor of RecursiveChunker
RecursiveChunkerConstructor(tokenizer, chunkSize, rules, minCharactersPerChunk) ==
    IF chunkSize <= 0 THEN [error |-> "chunkSize must be greater than 0"]
    ELSE IF minCharactersPerChunk <= 0
         THEN [error |-> "minCharactersPerChunk must be greater than 0"]
    ELSE [tokenizer |-> tokenizer, chunkSize |-> chunkSize, rules |-> rules,
          minCharactersPerChunk |-> minCharactersPerChunk]

\* the values of the options, with the defaults of create() filled in
SentenceArguments(o) ==
    [chunkSize |-> Default(o.chunkSize, 512),
     chunkOverlap |-> Default(o.chunkOverlap, 0),
     minSentencesPerChunk |-> Default(o.minSentencesPerChunk, 1),
     minCharactersPerSentence |-> Default(o.minCharactersPerSentence, 12),
     delim |-> Default(o.delim, DelimList(DefaultSentenceConfig.delim)),
     includeDelim |-> Default(o.includeDelim, "prev"),
     tokenizer |-> o.tokenizer]

RecursiveArguments(o) ==
    [chunkSize |-> Default(o.chunkSize, 512),
     minCharactersPerChunk |-> Default(o.minCharactersPerChunk, 24),
     rules |-> o.rules,
     tokenizer |-> Default(o.tokenizer, "character")]

OptionNumbers == {-1, 0, 1, 2}

SentenceOptions ==
    [chunkSize : Opt(OptionNumbers),
     chunkOverlap : Opt(OptionNumbers),
     minSentencesPerChunk : Opt({-1, 0, 1}),
     minCharactersPerSentence : Opt({-1, 0, 1}),
     delim : {[has |-> FALSE, v |-> NullDelim], [has |-> TRUE, v |-> NullDelim],
              [has |-> TRUE, v |-> DelimList(<<>>)],
              [has |-> TRUE, v |-> DelimList(<< <<".">> >>)]},
     includeDelim : Opt({"prev", "next", "null", "both"}),
     tokenizer : {"character"}]

RecursiveOptions ==
    [chunkSize : Opt(OptionNumbers),
     minCharactersPerChunk : Opt(OptionNumbers),
     rules : {<<>>, <<TokenLevel>>},
     tokenizer : Opt(RecursiveTokenizers)]

\* recipe.recipe as Hubbie.getRecipe returns it: delimiters a list or left
\* out, include_delim 'prev', 'next', null, left out ("undefined") or a
\* string that names no policy
RecipeIncludeValues == {"prev", "next", "null", "undefined", "both"}

RecipeOptions ==
    [chunkSize : Opt({0, 1, 2}),
     chunkOverlap : Opt({0, 1}),
     tokenizer : {"character"},
     recipe : [delimiters : {[has |-> FALSE, v |-> NullDelim],
                             [has |-> TRUE, v |-> DelimList(<< <<".">> >>)]},
               include_delim : RecipeIncludeValues]]

\* the JavaScript values that are false in a || b
Falsy == {"null", "undefined", ""}

\* a || b
Or(a, b) == IF a \in Falsy THEN b ELSE a

CreateInit ==
    /\ \/ createKind = "sentence" /\ options \in SentenceOptions
       \/ createKind = "recursive" /\ options \in RecursiveOptions
       \/ createKind = "recipe" /\ options \in RecipeOptions
    /\ instance = [error |-> ""]
    /\ cpc = "entry"
    /\ wasmInitialized \in BOOLEAN
    /\ wasm = [started |-> 0]
    /\ SIdle
    /\ RIdle
    /\ KIdle
    /\ PIdle

\* SentenceChunker.create(options)
SentenceCreate ==
    /\ cpc = "entry"
    /\ createKind = "sentence"
    /\ LET a == SentenceArguments(options)
           plainInstance ==
               SentenceChunkerConstructor(a.tokenizer, a.chunkSize, a.chunkOverlap,
                                          a.minSentencesPerChunk,
                                          a.minCharactersPerSentence,
                                          a.delim, a.includeDelim)
       IN /\ instance' = plainInstance
          /\ cpc' = IF "error" \in DOMAIN plainInstance THEN "threw" ELSE "returned"
    /\ UNCHANGED <<createKind, options, wasmInitialized, wasm>>
    /\ UNCHANGED <<svars, rvars, kvars, pvars>>

\* RecursiveChunker.create(options): initWasm(), then the constructor
RecursiveCreate ==
    /\ cpc = "entry"
    /\ createKind = "recursive"
    /\ wasmInitialized' = TRUE
    /\ LET a == RecursiveArguments(options)
           created == RecursiveChunkerConstructor(a.tokenizer, a.chunkSize,
                                                  a.rules, a.minCharactersPerChunk)
       IN /\ instance' = created
          /\ cpc' = IF "error" \in DOMAIN created THEN "threw" ELSE "returned"
    /\ UNCHANGED <<createKind, options, wasm>>
    /\ UNCHANGED <<svars, rvars, kvars, pvars>>

\* SentenceChunker.fromRecipe(options): the recipe is loaded, delim and
\* includeDelim are taken from it, includeDelim is validated, and
\* SentenceChunker.create is called with all the options given
FromRecipe ==
    /\ cpc = "entry"
    /\ createKind = "recipe"
    /\ LET delim == IF options.recipe.delimiters.has
                    THEN options.recipe.delimiters.v
                    ELSE DelimList(DefaultSentenceConfig.delim)
           includeDelim == Or(options.recipe.include_delim, "prev")
           created ==
               IF includeDelim # "prev" /\ includeDelim # "next" /\ includeDelim # "null"
               THEN [error |-> "Invalid include_delim value in recipe"]
               ELSE SentenceChunkerConstructor(
                        options.tokenizer,
                        Default(options.chunkSize, 512),
                        Default(options.chunkOverlap, 0),
                        1, 12, delim, includeDelim)
       IN /\ instance' = created
          /\ cpc' = IF "error" \in DOMAIN created THEN "threw" ELSE "returned"
    /\ UNCHANGED <<createKind, options, wasmInitialized, wasm>>
    /\ UNCHANGED <<svars, rvars, kvars, pvars>>

CreateNext == SentenceCreate \/ RecursiveCreate \/ FromRecipe

CreateSpec == CreateInit /\ [][CreateNext]_vars

---------------------------------------------------------------------------
(* Concurrent initWasm() and RecursiveChunker.create() calls *)

MaxCallers == 3      \* concurrent callers of initWasm() or create()

Callers == 1..MaxCallers

\* the module is loaded (let wasmInitialized = false) and every caller has
\* made its call, initWasm() itself or RecursiveChunker.create()
WasmInit ==
    /\ wasmInitialized = FALSE
    /\ \E kinds \in [Callers -> {"initWasm", "create"}] :
          wasm = [kind |-> kinds, pc |-> [c \in Callers |-> "entry"],
                  started |-> 0, completed |-> 0]
    /\ createKind = "none"
    /\ options = [chunkSize |-> [has |-> FALSE, v |-> 0]]
    /\ instance = [error |-> ""]
    /\ cpc = "idle"
    /\ SIdle
    /\ RIdle
    /\ KIdle
    /\ PIdle

\* initWasm(): if (!wasmInitialized) the call of init() up to its await
InitWasmEnter(c) ==
    /\ wasm.pc[c] = "entry"
    /\ wasm' = IF ~wasmInitialized
               THEN [wasm EXCEPT !.pc[c] = "awaiting", !.started = @ + 1]
               ELSE [wasm EXCEPT !.pc[c] = "initialized"]
    /\ UNCHANGED <<createKind, options, instance, cpc, wasmInitialized>>
    /\ UNCHANGED <<svars, rvars, kvars, pvars>>

\* await initChunk() resolved: wasmInitialized = true
InitChunkResolved(c) ==
    /\ wasm.pc[c] = "awaiting"
    /\ wasmInitialized' = TRUE
    /\ wasm' = [wasm EXCEPT !.pc[c] = "initialized", !.completed = @ + 1]
    /\ UNCHANGED <<createKind, options, instance, cpc>>
    /\ UNCHANGED <<svars, rvars, kvars, pvars>>

\* await initChunk() rejected: initWasm throws
InitChunkRejected(c) ==
    /\ wasm.pc[c] = "awaiting"
    /\ wasm' = [wasm EXCEPT !.pc[c] = "threw"]
    /\ UNCHANGED <<createKind, options, instance, cpc, wasmInitialized>>
    /\ UNCHANGED <<svars, rvars, kvars, pvars>>

\* create() after await initWasm(): the chunker is constructed
CreateAfterInit(c) ==
    /\ wasm.kind[c] = "create"
    /\ wasm.pc[c] = "initialized"
    /\ wasm' = [wasm EXCEPT !.pc[c] = "created"]
    /\ UNCHANGED <<createKind, options, instance, cpc, wasmInitialized>>
    /\ UNCHANGED <<svars, rvars, kvars, pvars>>

WasmNext ==
    \E c \in Callers :
        \/ InitWasmEnter(c)
        \/ InitChunkResolved(c)
        \/ InitChunkRejected(c)
        \/ CreateAfterInit(c)

WasmSpec == WasmInit /\ [][WasmNext]_vars

---------------------------------------------------------------------------
(* Two chunk() calls on one instance, interleaved at their await points *)

CallIds == {1, 2}

\* SentenceChunker.chunk as a function: the while loop from pos on
RECURSIVE ChunkLoop(_, _, _, _, _)
ChunkLoop(self, sents, sums, p, acc) ==
    IF p < Len(sents)
    THEN LET splitIdx == SplitIdx(self, sents, sums, p)
         IN ChunkLoop(self, sents, sums, NextPos(self, sents, p, splitIdx),
                      Append(acc, _createChunk(self, slice(sents, p, splitIdx))))
    ELSE acc

\* SentenceChunker.chunk(text), one call run on its own
chunk(self, t) ==
    IF trim(t) = <<>> THEN <<>>
    ELSE LET sents == _prepareSentences(self, t)
         IN IF Len(sents) = 0 THEN <<>>
            ELSE ChunkLoop(self, sents, PrefixSums(sents), 0, <<>>)

\* the activation through which a call reaches `let pos`, were pos kept in
\* one place for every call (a faulty variant)
PosOwnerShared(c) == 1

\* the activation that holds the `let pos` of call c: its own
PosOwner(c) == c

\* the locals of a SentenceChunker.chunk call
SentenceActivation(t) ==
    [text |-> t, pc |-> "entry", sentences |-> <<>>, tokenSums |-> <<>>,
     chunks |-> <<>>, pos |-> 0, chunkSentences |-> <<>>, splitIdx |-> 0]

\* a call entered at the level of its caller (a faulty variant)
RecursiveFrameStaysAtLevel(t, level, startOffset) ==
    [text |-> t, level |-> IF level > 0 THEN level - 1 ELSE 0,
     startOffset |-> startOffset, stage |-> "start",
     merged |-> <<>>, combinedTokenCounts |-> <<>>, i |-> 0,
     currentOffset |-> startOffset, chunks |-> <<>>]

\* one frame of RecursiveChunker.recursiveChunk
RecursiveFrame(t, level, startOffset) ==
    [text |-> t, level |-> level, startOffset |-> startOffset, stage |-> "start",
     merged |-> <<>>, combinedTokenCounts |-> <<>>, i |-> 0,
     currentOffset |-> startOffset, chunks |-> <<>>]

\* the call stack of a RecursiveChunker.chunk call (top frame last)
RecursiveActivation(t) ==
    [text |-> t, pc |-> "running", stack |-> <<RecursiveFrame(t, 0, 0)>>,
     chunks |-> <<>>]

ConcurrentSentenceConfigs ==
    {c \in SentenceConfigs :
        /\ c.delim = << <<".">> >>
        /\ c.includeDelim = "prev"
        /\ c.minCharactersPerSentence = 1
        /\ c.tokenizer = "character"}

ConcurrentSentenceTexts ==
    { <<"a", ".", "a", ".">>, <<".", ".", ".">>, <<"a", ".", " ", "a">>, <<" ">> }

ConcurrentRecursiveConfigs ==
    {c \in RecursiveConfigs : c.minCharactersPerChunk = 1}

ConcurrentRecursiveTexts ==
    { <<"a", ".", "a", ".">>, <<"a", " ", "a", "a">>, <<"a", "a", "a">>, <<>> }

ConcurrentInit ==
    /\ \/ /\ ckind = "sentence"
          /\ shared \in ConcurrentSentenceConfigs
          /\ calls \in [CallIds -> {SentenceActivation(t) : t \in ConcurrentSentenceTexts}]
       \/ /\ ckind = "recursive"
          /\ shared \in ConcurrentRecursiveConfigs
          /\ calls \in [CallIds -> {RecursiveActivation(t) : t \in ConcurrentRecursiveTexts}]
    /\ SIdle
    /\ RIdle
    /\ CIdle
    /\ PIdle

\* chunk(): from the entry to the await of countTokensBatch
CallEnter(c) ==
    /\ ckind = "sentence"
    /\ calls[c].pc = "entry"
    /\ calls' = [calls EXCEPT ![c].pc =
                    IF trim(calls[c].text) = <<>> THEN "done"
                    ELSE IF Len(_splitText(shared, calls[c].text)) = 0 THEN "done"
                    ELSE "counting"]
    /\ UNCHANGED <<ckind, shared>>
    /\ UNCHANGED <<svars, rvars, cvars, pvars>>

\* countTokensBatch resolved: the sentences and tokenSums
CallPrepared(c) ==
    /\ ckind = "sentence"
    /\ calls[c].pc = "counting"
    /\ LET prepared == _prepareSentences(shared, calls[c].text)
       IN calls' = [calls EXCEPT ![c].sentences = prepared,
                                 ![c].tokenSums = PrefixSums(prepared),
                                 ![c].pc = "loop"]
    /\ UNCHANGED <<ckind, shared>>
    /\ UNCHANGED <<svars, rvars, cvars, pvars>>

\* one iteration, up to the await of countTokens in _createChunk
CallSelect(c) ==
    /\ ckind = "sentence"
    /\ calls[c].pc = "loop"
    /\ LET p == calls[PosOwner(c)].pos
       IN /\ p < Len(calls[c].sentences)
          /\ LET splitIdx == SplitIdx(shared, calls[c].sentences, calls[c].tokenSums, p)
             IN calls' = [calls EXCEPT
                            ![c].splitIdx = splitIdx,
                            ![c].chunkSentences = slice(calls[c].sentences, p, splitIdx),
                            ![c].pc = "creating"]
    /\ UNCHANGED <<ckind, shared>>
    /\ UNCHANGED <<svars, rvars, cvars, pvars>>

\* countTokens resolved: the chunk is pushed and pos moves on
CallPush(c) ==
    /\ ckind = "sentence"
    /\ calls[c].pc = "creating"
    /\ LET p == calls[PosOwner(c)].pos
       IN calls' = [calls EXCEPT
                      ![c].chunks = Append(@, _createChunk(shared, calls[c].chunkSentences)),
                      ![c].pc = "loop",
                      ![PosOwner(c)].pos =
                          NextPos(shared, calls[c].sentences, p, calls[c].splitIdx)]
    /\ UNCHANGED <<ckind, shared>>
    /\ UNCHANGED <<svars, rvars, cvars, pvars>>

\* the loop ends: return chunks
CallReturn(c) ==
    /\ ckind = "sentence"
    /\ calls[c].pc = "loop"
    /\ ~(calls[PosOwner(c)].pos < Len(calls[c].sentences))
    /\ calls' = [calls EXCEPT ![c].pc = "done"]
    /\ UNCHANGED <<ckind, shared>>
    /\ UNCHANGED <<svars, rvars, cvars, pvars>>

\* the frame on top of the stack of call c
TopFrame(c) == calls[c].stack[Len(calls[c].stack)]

\* call c with its top frame replaced by f
WithTop(c, f) ==
    [calls[c] EXCEPT !.stack = SubSeq(@, 1, Len(@) - 1) \o <<f>>]

\* call c after its top frame returned res: the caller's frame pushes the
\* chunks and moves to the next piece, or chunk() itself returns
Returned(c, res) ==
    LET stack == calls[c].stack
        n == Len(stack)
    IN IF n = 1
       THEN [calls[c] EXCEPT !.pc = "done", !.chunks = res, !.stack = <<>>]
       ELSE LET caller == stack[n - 1]
                resumed == [caller EXCEPT
                              !.chunks = @ \o res,
                              !.currentOffset = @ + Len(caller.merged[caller.i + 1]),
                              !.i = @ + 1,
                              !.stage = "loop"]
            IN [calls[c] EXCEPT !.stack = SubSeq(stack, 1, n - 2) \o <<resumed>>]

\* recursiveChunk(): from the entry to its first await
FrameStart(c) ==
    /\ ckind = "recursive"
    /\ calls[c].pc = "running"
    /\ TopFrame(c).stage = "start"
    /\ LET f == TopFrame(c)
       IN calls' = [calls EXCEPT ![c] =
                      IF f.text = <<>> THEN Returned(c, <<>>)
                      ELSE IF f.level >= Len(shared.rules)
                           THEN WithTop(c, [f EXCEPT !.stage = "estimating"])
                           ELSE WithTop(c, [f EXCEPT !.stage = "counting"])]
    /\ UNCHANGED <<ckind, shared>>
    /\ UNCHANGED <<svars, rvars, cvars, pvars>>

\* base case: estimateTokenCount resolved
FrameEstimated(c) ==
    /\ ckind = "recursive"
    /\ calls[c].pc = "running"
    /\ TopFrame(c).stage = "estimating"
    /\ LET f == TopFrame(c)
       IN calls' = [calls EXCEPT ![c] =
                      Returned(c, <<makeChunk(f.text, estimateTokenCount(shared, f.text),
                                              f.startOffset)>>)]
    /\ UNCHANGED <<ckind, shared>>
    /\ UNCHANGED <<svars, rvars, cvars, pvars>>

\* Promise.all of the estimates resolved: the pieces are merged
FrameCounted(c) ==
    /\ ckind = "recursive"
    /\ calls[c].pc = "running"
    /\ TopFrame(c).stage = "counting"
    /\ LET f == TopFrame(c)
           currRule == shared.rules[f.level + 1]
           splits == splitText(shared, f.text, currRule)
           tokenCounts ==
               [k \in 1..Len(splits) |-> estimateTokenCount(shared, splits[k])]
           m == MergeLevel(shared, currRule, splits, tokenCounts)
       IN calls' = [calls EXCEPT ![c] =
                      WithTop(c, [f EXCEPT !.merged = m[1],
                                           !.combinedTokenCounts = m[2],
                                           !.stage = "loop"])]
    /\ UNCHANGED <<ckind, shared>>
    /\ UNCHANGED <<svars, rvars, cvars, pvars>>

\* one iteration of the for loop over merged, or the return after it
FrameLoop(c) ==
    /\ ckind = "recursive"
    /\ calls[c].pc = "running"
    /\ TopFrame(c).stage = "loop"
    /\ LET f == TopFrame(c)
       IN calls' = [calls EXCEPT ![c] =
            IF f.i < Len(f.merged)
            THEN LET piece == f.merged[f.i + 1]
                     tokenCount == f.combinedTokenCounts[f.i + 1]
                 IN IF tokenCount > shared.chunkSize
                    THEN [calls[c] EXCEPT !.stack =
                            SubSeq(@, 1, Len(@) - 1)
                            \o <<[f EXCEPT !.stage = "awaiting"],
                                 RecursiveFrame(piece, f.level + 1, f.currentOffset)>>]
                    ELSE WithTop(c, [f EXCEPT
                            !.chunks = Append(@, makeChunk(piece, tokenCount,
                                                           f.currentOffset)),
                            !.currentOffset = @ + Len(piece),
                            !.i = @ + 1])
            ELSE Returned(c, f.chunks)]
    /\ UNCHANGED <<ckind, shared>>
    /\ UNCHANGED <<svars, rvars, cvars, pvars>>

ConcurrentNext ==
    \E c \in CallIds :
        \/ CallEnter(c)
        \/ CallPrepared(c)
        \/ CallSelect(c)
        \/ CallPush(c)
        \/ CallReturn(c)
        \/ FrameStart(c)
        \/ FrameEstimated(c)
        \/ FrameCounted(c)
        \/ FrameLoop(c)

ConcurrentSpec == ConcurrentInit /\ [][ConcurrentNext]_vars

---------------------------------------------------------------------------
(* One RecursiveChunker.chunk call, call by call of recursiveChunk *)

\* the inputs of RecursiveSpec, but for those with minCharactersPerChunk 2
DescentInputs ==
    {in \in RecursiveInputs : in.self.minCharactersPerChunk # 2}

\* chunk(text): recursiveChunk(text, 0, 0) is entered
DescentInit ==
    /\ ckind = "recursive"
    /\ \E in \in DescentInputs :
          /\ shared = in.self
          /\ calls = <<RecursiveActivation(in.text)>>
    /\ SIdle
    /\ RIdle
    /\ CIdle
    /\ PIdle

DescentNext ==
    FrameStart(1) \/ FrameEstimated(1) \/ FrameCounted(1) \/ FrameLoop(1)

DescentSpec == DescentInit /\ [][DescentNext]_vars

\* C14: whatever the interleaving of two chunk() calls on one instance at
\* their await points, a call that has returned returned the chunk list the
\* same call returns run alone, and no step changes the instance.
C14_ConcurrentCallsSafe ==
    /\ [](\A c \in DOMAIN calls :
            calls[c].pc = "done" =>
                calls[c].chunks =
                    IF ckind = "sentence" THEN chunk(shared, calls[c].text)
                    ELSE recursiveChunk(shared, calls[c].text, 0, 0))
    /\ [][shared' = shared]_vars

\* C14 witness: the first call returned several chunks while the second
\* call, on another text, is suspended half-way through its own loop.
C14_Witness ==
    /\ ckind = "sentence"
    /\ calls[1].pc = "done"
    /\ Len(calls[1].chunks) >= 2
    /\ calls[2].pc = "creating"
    /\ Len(calls[2].chunks) >= 1
    /\ calls[1].text # calls[2].text

---------------------------------------------------------------------------
(* Pipeline (packages/cloud): one Pipeline object, used by one caller that *)
(* awaits each call, and what the service stores for its slug.  The        *)
(* service answers every request according to what it stores.              *)

MaxSteps == 1        \* most steps the builder methods add
MaxOps == 3          \* most run/update/delete/get calls made

SaveRequest == "POST /v1/pipeline"
ExecuteRequest == "POST /v1/pipeline/{slug}"
UpdateRequest == "PUT /v1/pipeline/{slug}"
DeleteRequest == "DELETE /v1/pipeline/{slug}"
GetRequest == "GET /v1/pipeline/{slug}"
UploadRequest == "POST file upload"

\* ChunkerInput: nothing, text, text: "", filepath, file
RunInputs == {"none", "text", "emptyText", "filepath", "file"}

\* run() rejecting only a call without any input field (a faulty variant)
NoInputOnlyWhenAbsent(input) == input = "none"

\* !input.text && !input.filepath && !input.file
NoInput(input) == input \notin {"text", "filepath", "file"}

NoOp ==
    [name |-> "none", stage |-> "idle", input |-> "none", sent |-> <<>>,
     savedAtCall |-> FALSE, body |-> [steps |-> <<>>, hasSteps |-> FALSE,
                                      description |-> "null", hasDescription |-> FALSE]]

Outcome(name, outcome, sent, savedAtCall) ==
    [name |-> name, outcome |-> outcome, sent |-> sent, savedAtCall |-> savedAtCall]

NoOutcome == Outcome("none", "none", <<>>, FALSE)

NotStored == [exists |-> FALSE, steps |-> <<>>, description |-> "null"]

\* the service on POST /v1/pipeline: the pipeline is stored; a slug that is
\* already stored is either rejected or stored anew
SaveAnswers(r, body) ==
    {[ok |-> TRUE,
      remote |-> [exists |-> TRUE, steps |-> body.steps,
                  description |-> body.description]]}
    \cup (IF r.exists THEN {[ok |-> FALSE, remote |-> r]} ELSE {})

\* the service on PUT /v1/pipeline/{slug}
UpdateAnswer(r, body) ==
    IF r.exists
    THEN [ok |-> TRUE,
          remote |-> [exists |-> TRUE,
                      steps |-> IF body.hasSteps THEN body.steps ELSE r.steps,
                      description |-> IF body.hasDescription THEN body.description
                                      ELSE r.description]]
    ELSE [ok |-> FALSE, remote |-> r]

\* the service on DELETE /v1/pipeline/{slug}
DeleteAnswer(r) ==
    IF r.exists THEN [ok |-> TRUE, remote |-> NotStored]
    ELSE [ok |-> FALSE, remote |-> r]

\* new Pipeline(options)
NewPipeline == [steps |-> <<>>, isSaved |-> FALSE, description |-> "null", id |-> "null"]

PipelineInit ==
    /\ pipeline = NewPipeline
    /\ remote \in {NotStored,
                   [exists |-> TRUE, steps |-> <<[type |-> "chunk"]>>,
                    description |-> "null"]}
    /\ op = NoOp
    /\ last = NoOutcome
    /\ prev = NoOutcome
    /\ nops = 0
    /\ SIdle
    /\ RIdle
    /\ CIdle
    /\ KIdle

\* run() saving whatever _isSaved is (a faulty variant)
NeedsSaveAlways(p) == TRUE

\* run(): if (!this._isSaved)
NeedsSave(p) == ~p.isSaved

\* delete() leaving _isSaved as it was (a faulty variant)
DeletedKeepsSaved(p) == [p EXCEPT !.id = "null"]

\* delete(): this._isSaved = false; this._id = null
Deleted(p) == [p EXCEPT !.isSaved = FALSE, !.id = "null"]

\* a call ends: its outcome is recorded
Finish(o) ==
    /\ last' = o
    /\ prev' = last
    /\ op' = NoOp

\* this._steps.push({ type, component, ...params })
Push(type) ==
    /\ op.stage = "idle"
    /\ Len(pipeline.steps) < MaxSteps
    /\ pipeline' = [pipeline EXCEPT !.steps = Append(@, [type |-> type])]
    /\ UNCHANGED <<remote, op, last, prev, nops>>
    /\ UNCHANGED <<svars, rvars, cvars, kvars>>

ChunkWith == Push("chunk")
RefineWith == Push("refine")
ProcessWith == Push("process")

\* reset(): this._steps = []
Reset ==
    /\ op.stage = "idle"
    /\ pipeline' = [pipeline EXCEPT !.steps = <<>>]
    /\ UNCHANGED <<remote, op, last, prev, nops>>
    /\ UNCHANGED <<svars, rvars, cvars, kvars>>

\* run(): after the save, the upload request or the execute request is sent
ContinueRun(o) ==
    IF o.input = "filepath"
    THEN [o EXCEPT !.stage = "uploading", !.sent = Append(@, UploadRequest)]
    ELSE [o EXCEPT !.stage = "executing", !.sent = Append(@, ExecuteRequest)]

\* run(input), up to its first await
RunCall ==
    /\ op.stage = "idle"
    /\ nops < MaxOps
    /\ nops' = nops + 1
    /\ \E input \in RunInputs :
          LET o == [NoOp EXCEPT !.name = "run", !.input = input,
                                !.savedAtCall = pipeline.isSaved]
          IN IF NoInput(input)
             THEN Finish(Outcome("run", "Either text, filepath, or file must be provided.",
                                 <<>>, pipeline.isSaved))
             ELSE IF NeedsSave(pipeline)
                  THEN IF Len(pipeline.steps) = 0
                       THEN Finish(Outcome("run", "Cannot save pipeline with no steps.",
                                           <<>>, FALSE))
                       ELSE /\ op' = [o EXCEPT !.stage = "saving",
                                               !.sent = <<SaveRequest>>,
                                               !.body.steps = pipeline.steps,
                                               !.body.hasSteps = TRUE,
                                               !.body.description = pipeline.description,
                                               !.body.hasDescription = TRUE]
                            /\ UNCHANGED <<last, prev>>
                  ELSE /\ op' = ContinueRun(o)
                       /\ UNCHANGED <<last, prev>>
    /\ UNCHANGED <<pipeline, remote>>
    /\ UNCHANGED <<svars, rvars, cvars, kvars>>

\* save(): the answer to POST /v1/pipeline
SaveResponse ==
    /\ op.stage = "saving"
    /\ \E a \in SaveAnswers(remote, op.body) :
          /\ remote' = a.remote
          /\ IF a.ok
             THEN /\ pipeline' = [pipeline EXCEPT !.isSaved = TRUE, !.id = "id"]
                  /\ op' = ContinueRun(op)
                  /\ UNCHANGED <<last, prev>>
             ELSE /\ Finish(Outcome("run", "request failed", op.sent, op.savedAtCall))
                  /\ UNCHANGED pipeline
    /\ UNCHANGED nops
    /\ UNCHANGED <<svars, rvars, cvars, kvars>>

\* run(): the answer to the file upload
UploadResponse ==
    /\ op.stage = "uploading"
    /\ \/ /\ op' = [op EXCEPT !.stage = "executing", !.sent = Append(@, ExecuteRequest)]
          /\ UNCHANGED <<last, prev>>
       \/ Finish(Outcome("run", "request failed", op.sent, op.savedAtCall))
    /\ UNCHANGED <<pipeline, remote, nops>>
    /\ UNCHANGED <<svars, rvars, cvars, kvars>>

\* run(): the answer to POST /v1/pipeline/{slug}
ExecuteResponse ==
    /\ op.stage = "executing"
    /\ Finish(Outcome("run", IF remote.exists THEN "ok" ELSE "request failed",
                      op.sent, op.savedAtCall))
    /\ UNCHANGED <<pipeline, remote, nops>>
    /\ UNCHANGED <<svars, rvars, cvars, kvars>>

\* update(options), up to its await
UpdateCall ==
    /\ op.stage = "idle"
    /\ nops < MaxOps
    /\ nops' = nops + 1
    /\ \E description \in {"undefined", "d"} :
          LET hasDescription == description # "undefined"
              hasSteps == Len(pipeline.steps) > 0
          IN /\ pipeline' = IF hasDescription
                            THEN [pipeline EXCEPT !.description = description]
                            ELSE pipeline
             /\ IF ~hasDescription /\ ~hasSteps
                THEN Finish(Outcome("update", "ok", <<>>, pipeline.isSaved))
                ELSE /\ op' = [NoOp EXCEPT
                                 !.name = "update", !.stage = "updating",
                                 !.sent = <<UpdateRequest>>,
                                 !.savedAtCall = pipeline.isSaved,
                                 !.body = [steps |-> pipeline.steps,
                                           hasSteps |-> hasSteps,
                                           description |-> description,
                                           hasDescription |-> hasDescription]]
                     /\ UNCHANGED <<last, prev>>
    /\ UNCHANGED remote
    /\ UNCHANGED <<svars, rvars, cvars, kvars>>

\* update(): the answer to PUT /v1/pipeline/{slug}
UpdateResponse ==
    /\ op.stage = "updating"
    /\ LET a == UpdateAnswer(remote, op.body)
       IN /\ remote' = a.remote
          /\ pipeline' = IF a.ok THEN [pipeline EXCEPT !.isSaved = TRUE] ELSE pipeline
          /\ Finish(Outcome("update", IF a.ok THEN "ok" ELSE "request failed",
                            op.sent, op.savedAtCall))
    /\ UNCHANGED nops
    /\ UNCHANGED <<svars, rvars, cvars, kvars>>

\* delete(), up to its await
DeleteCall ==
    /\ op.stage = "idle"
    /\ nops < MaxOps
    /\ nops' = nops + 1
    /\ op' = [NoOp EXCEPT !.name = "delete", !.stage = "deleting",
                          !.sent = <<DeleteRequest>>,
                          !.savedAtCall = pipeline.isSaved]
    /\ UNCHANGED <<pipeline, remote, last, prev>>
    /\ UNCHANGED <<svars, rvars, cvars, kvars>>

\* delete(): the answer to DELETE /v1/pipeline/{slug}
DeleteResponse ==
    /\ op.stage = "deleting"
    /\ LET a == DeleteAnswer(remote)
       IN /\ remote' = a.remote
          /\ pipeline' = IF a.ok THEN Deleted(pipeline) ELSE pipeline
          /\ Finish(Outcome("delete", IF a.ok THEN "ok" ELSE "request failed",
                            op.sent, op.savedAtCall))
    /\ UNCHANGED nops
    /\ UNCHANGED <<svars, rvars, cvars, kvars>>

\* Pipeline.get(slug), up to its await
GetCall ==
    /\ op.stage = "idle"
    /\ nops < MaxOps
    /\ nops' = nops + 1
    /\ op' = [NoOp EXCEPT !.name = "get", !.stage = "fetching",
                          !.sent = <<GetRequest>>,
                          !.savedAtCall = pipeline.isSaved]
    /\ UNCHANGED <<pipeline, remote, last, prev>>
    /\ UNCHANGED <<svars, rvars, cvars, kvars>>

\* Pipeline.get(): status 404 throws "Pipeline '<slug>' not found."; otherwise
\* a new object is built from the answer, which the caller may go on with
GetResponse ==
    /\ op.stage = "fetching"
    /\ IF remote.exists
       THEN /\ Finish(Outcome("get", "ok", op.sent, op.savedAtCall))
            /\ \/ pipeline' = [steps |-> remote.steps, isSaved |-> TRUE,
                               description |-> remote.description, id |-> "id"]
               \/ UNCHANGED pipeline
       ELSE /\ Finish(Outcome("get", "not found", op.sent, op.savedAtCall))
            /\ UNCHANGED pipeline
    /\ UNCHANGED <<remote, nops>>
    /\ UNCHANGED <<svars, rvars, cvars, kvars>>

PipelineNext ==
    \/ ChunkWith \/ RefineWith \/ ProcessWith \/ Reset
    \/ RunCall \/ SaveResponse \/ UploadResponse \/ ExecuteResponse
    \/ UpdateCall \/ UpdateResponse
    \/ DeleteCall \/ DeleteResponse
    \/ GetCall \/ GetResponse

PipelineSpec == PipelineInit /\ [][PipelineNext]_vars

---------------------------------------------------------------------------
(* run() calls on one Pipeline object, interleaved at their await points:  *)
(* op[c] is the call of caller c, last[c] its outcome                      *)

MaxRuns == 2

Runs == 1..MaxRuns

\* a call that has returned or thrown
RunReturned(o) == [NoOp EXCEPT !.name = "run", !.stage = "returned", !.input = o.input]

\* a pipeline that starts unsaved, with the steps its builder calls gave it
OverlappingRunsInit ==
    /\ pipeline \in {NewPipeline, [NewPipeline EXCEPT !.steps = <<[type |-> "chunk"]>>]}
    /\ remote \in {NotStored,
                   [exists |-> TRUE, steps |-> <<[type |-> "chunk"]>>,
                    description |-> "null"]}
    /\ op = [c \in Runs |-> NoOp]
    /\ last = [c \in Runs |-> NoOutcome]
    /\ prev = NoOutcome
    /\ nops = 0
    /\ SIdle
    /\ RIdle
    /\ CIdle
    /\ KIdle

\* the call of caller c ends: its outcome is recorded
FinishRun(c, o) ==
    /\ last' = [last EXCEPT ![c] = o]
    /\ op' = [op EXCEPT ![c] = RunReturned(op[c])]

\* run(input) of caller c, up to its first await
RunEnter(c) ==
    /\ op[c].stage = "idle"
    /\ \E input \in RunInputs :
          LET o == [NoOp EXCEPT !.name = "run", !.input = input,
                                !.savedAtCall = pipeline.isSaved]
          IN IF NoInput(input)
             THEN FinishRun(c, Outcome("run", "Either text, filepath, or file must be provided.",
                                       <<>>, pipeline.isSaved))
             ELSE IF NeedsSave(pipeline)
                  THEN IF Len(pipeline.steps) = 0
                       THEN FinishRun(c, Outcome("run", "Cannot save pipeline with no steps.",
                                                 <<>>, FALSE))
                       ELSE /\ op' = [op EXCEPT ![c] =
                                         [o EXCEPT !.stage = "saving",
                                                   !.sent = <<SaveRequest>>,
                                                   !.body.steps = pipeline.steps,
                                                   !.body.hasSteps = TRUE,
                                                   !.body.description = pipeline.description,
                                                   !.body.hasDescription = TRUE]]
                            /\ UNCHANGED last
                  ELSE /\ op' = [op EXCEPT ![c] = ContinueRun(o)]
                       /\ UNCHANGED last
    /\ UNCHANGED <<pipeline, remote, prev, nops>>
    /\ UNCHANGED <<svars, rvars, cvars, kvars>>

\* save() of caller c: the answer to POST /v1/pipeline
RunSaved(c) ==
    /\ op[c].stage = "saving"
    /\ \E a \in SaveAnswers(remote, op[c].body) :
          /\ remote' = a.remote
          /\ IF a.ok
             THEN /\ pipeline' = [pipeline EXCEPT !.isSaved = TRUE, !.id = "id"]
                  /\ op' = [op EXCEPT ![c] = ContinueRun(op[c])]
                  /\ UNCHANGED last
             ELSE /\ FinishRun(c, Outcome("run", "request failed", op[c].sent,
                                          op[c].savedAtCall))
                  /\ UNCHANGED pipeline
    /\ UNCHANGED <<prev, nops>>
    /\ UNCHANGED <<svars, rvars, cvars, kvars>>

\* run() of caller c: the answer to the file upload
RunUploaded(c) ==
    /\ op[c].stage = "uploading"
    /\ \/ /\ op' = [op EXCEPT ![c] = [@ EXCEPT !.stage = "executing",
                                                !.sent = Append(@, ExecuteRequest)]]
          /\ UNCHANGED last
       \/ FinishRun(c, Outcome("run", "request failed", op[c].sent, op[c].savedAtCall))
    /\ UNCHANGED <<pipeline, remote, prev, nops>>
    /\ UNCHANGED <<svars, rvars, cvars, kvars>>

\* run() of caller c: the answer to POST /v1/pipeline/{slug}
RunExecuted(c) ==
    /\ op[c].stage = "executing"
    /\ FinishRun(c, Outcome("run", IF remote.exists THEN "ok" ELSE "request failed",
                            op[c].sent, op[c].savedAtCall))
    /\ UNCHANGED <<pipeline, remote, prev, nops>>
    /\ UNCHANGED <<svars, rvars, cvars, kvars>>

OverlappingRunsNext ==
    \E c \in Runs :
        \/ RunEnter(c)
        \/ RunSaved(c)
        \/ RunUploaded(c)
        \/ RunExecuted(c)

OverlappingRunsSpec == OverlappingRunsInit /\ [][OverlappingRunsNext]_vars

---------------------------------------------------------------------------
(* chunk() of either chunker, create(), concurrent calls, the Pipeline *)

Init ==
    \/ SentenceInit \/ RecursiveInit
    \/ CreateInit \/ ConcurrentInit \/ PipelineInit

Next ==
    \/ SentenceNext \/ RecursiveNext
    \/ CreateNext \/ ConcurrentNext \/ PipelineNext

Spec == Init /\ [][Next]_vars

---------------------------------------------------------------------------
(* Properties of RecursiveChunker, checked under RecursiveSpec *)

HasTerminalTokenLevel(rules) ==
    Len(rules) > 0 /\ IsTokenLevel(rules[Len(rules)])

\* C3 (as claimed): when the rules end with a token-window level, every
\* chunk RecursiveChunker.chunk returns has tokenCount <= chunkSize, for
\* every text and every tokenizer, tokenizers with tokens longer than 6.5
\* characters on average included.
C3_TokenBudget ==
    (rpc = "done" /\ HasTerminalTokenLevel(rchunker.rules)) =>
        \A i \in 1..Len(rchunks) : rchunks[i].tokenCount <= rchunker.chunkSize

---------------------------------------------------------------------------
(* Properties of both chunkers, checked under Spec *)

\* C9 (as claimed): chunk("") and chunk of a whitespace-only string return
\* an empty list, for SentenceChunker and for RecursiveChunker alike.
C9_EmptyInput ==
    /\ (pc = "done" /\ Blank(text)) => chunks = <<>>
    /\ (rpc = "done" /\ Blank(rtext)) => rchunks = <<>>

---------------------------------------------------------------------------
(* Properties of create(), checked under CreateSpec *)

Created == cpc \in {"returned", "threw"}

\* the numeric bounds of the two constructors, on the arguments they receive
SentenceBoundsBroken(a) ==
    \/ a.chunkSize <= 0
    \/ a.chunkOverlap < 0
    \/ a.chunkOverlap >= a.chunkSize
    \/ a.minSentencesPerChunk <= 0
    \/ a.minCharactersPerSentence <= 0

RecursiveBoundsBroken(a) ==
    a.chunkSize <= 0 \/ a.minCharactersPerChunk <= 0

\* C11: SentenceChunker.create throws, returning no chunker, whenever a
\* numeric bound is broken (chunkSize <= 0, chunkOverlap < 0, chunkOverlap >=
\* chunkSize, minSentencesPerChunk <= 0, minCharactersPerSentence <= 0), and
\* RecursiveChunker.create whenever chunkSize <= 0 or minCharactersPerChunk
\* <= 0; a configuration within all bounds (its delim a list and its
\* includeDelim one of the three policies) is accepted and its fields are
\* the values given.
C11_FailFastValidation ==
    /\ (createKind = "sentence" /\ Created) =>
          LET a == SentenceArguments(options)
          IN /\ SentenceBoundsBroken(a) =>
                   cpc = "threw" /\ DOMAIN instance = {"error"}
             /\ (/\ ~SentenceBoundsBroken(a)
                 /\ ~a.delim.isNull
                 /\ a.includeDelim \in {"prev", "next", "null"}) =>
                   /\ cpc = "returned"
                   /\ instance = [chunkSize |-> a.chunkSize,
                                  chunkOverlap |-> a.chunkOverlap,
                                  minSentencesPerChunk |-> a.minSentencesPerChunk,
                                  minCharactersPerSentence |-> a.minCharactersPerSentence,
                                  delim |-> a.delim.items,
                                  includeDelim |-> a.includeDelim,
                                  tokenizer |-> a.tokenizer]
    /\ (createKind = "recursive" /\ Created) =>
          LET a == RecursiveArguments(options)
          IN /\ RecursiveBoundsBroken(a) =>
                   cpc = "threw" /\ DOMAIN instance = {"error"}
             /\ ~RecursiveBoundsBroken(a) =>
                   /\ cpc = "returned"
                   /\ instance = [chunkSize |-> a.chunkSize, rules |-> a.rules,
                                  minCharactersPerChunk |-> a.minCharactersPerChunk,
                                  tokenizer |-> a.tokenizer]

\* C11 witness: SentenceChunker.create threw for chunkOverlap = chunkSize,
\* every other bound being kept.
C11_Witness ==
    /\ createKind = "sentence"
    /\ cpc = "threw"
    /\ LET a == SentenceArguments(options)
       IN /\ a.chunkSize > 0
          /\ a.chunkOverlap = a.chunkSize
          /\ a.minSentencesPerChunk > 0
          /\ a.minCharactersPerSentence > 0

\* C12 (as claimed): SentenceChunker.create fails when the delimiter set is
\* an empty list: no chunker with zero delimiters is constructed.  (A delim
\* of null is rejected; a delim left out takes the default list.)
C12_EmptyDelimiterRejected ==
    (/\ createKind = "sentence"
     /\ Created
     /\ options.delim.has
     /\ ~options.delim.v.isNull
     /\ options.delim.v.items = <<>>) =>
        cpc = "threw"

---------------------------------------------------------------------------
(* Further properties of SentenceChunker.chunk, checked under SentenceSpec *)

\* The Sentence objects are created once, by _prepareSentences; chunk()
\* passes sentences.slice(pos, splitIdx), the same objects, to _createChunk,
\* which stores that list in the chunk.  Sentences are non-empty, so two
\* records of one call are the same object exactly when they are equal.
SharedSentences(c1, c2) ==
    {c1.sentences[a] : a \in 1..Len(c1.sentences)}
        \cap {c2.sentences[b] : b \in 1..Len(c2.sentences)}

\* C13 (as claimed): within the result of one chunk() call no Sentence
\* record is in the sentences list of more than one chunk, chunkOverlap > 0
\* included.
C13_SentenceOwnership ==
    \A i \in 1..Len(chunks) : \A j \in (i + 1)..Len(chunks) :
        SharedSentences(chunks[i], chunks[j]) = {}

---------------------------------------------------------------------------
(* Properties of Pipeline, checked under PipelineSpec *)

\* request a is sent before request b in the list of requests of one call
SentBefore(sent, a, b) ==
    \E i, j \in 1..Len(sent) : i < j /\ sent[i] = a /\ sent[j] = b

Sends(sent, a) == \E i \in 1..Len(sent) : sent[i] = a

\* the requests of the run() under way, or of the latest finished call if
\* that was a run()
RunsSeen ==
    (IF op.name = "run" THEN {[sent |-> op.sent, savedAtCall |-> op.savedAtCall]}
     ELSE {})
    \cup (IF last.name = "run"
          THEN {[sent |-> last.sent, savedAtCall |-> last.savedAtCall]}
          ELSE {})

\* C15: a new Pipeline has isSaved = false; a run() on a pipeline with
\* isSaved = false and at least one step sends the save request POST
\* /v1/pipeline first, before the execute request; after a successful run
\* isSaved is true; a run() on a pipeline with isSaved = true sends no save
\* request.
C15_PipelineAutoSave ==
    /\ nops = 0 => ~pipeline.isSaved
    /\ \A r \in RunsSeen :
          /\ (~r.savedAtCall /\ r.sent # <<>>) => r.sent[1] = SaveRequest
          /\ (~r.savedAtCall /\ Sends(r.sent, ExecuteRequest)) =>
                SentBefore(r.sent, SaveRequest, ExecuteRequest)
          /\ r.savedAtCall => ~Sends(r.sent, SaveRequest)
    /\ (last.name = "run" /\ last.outcome = "ok") => pipeline.isSaved
    /\ (/\ last.name = "run"
        /\ ~last.savedAtCall
        /\ last.outcome \notin {"Either text, filepath, or file must be provided.",
                                "Cannot save pipeline with no steps."}) =>
          Sends(last.sent, SaveRequest)

\* C15 witness: a first run() on a new pipeline with a step succeeded, having
\* sent the save request and then the execute request.
C15_Witness ==
    /\ last.name = "run"
    /\ last.outcome = "ok"
    /\ ~last.savedAtCall
    /\ prev.name = "none"
    /\ last.sent = <<SaveRequest, ExecuteRequest>>
    /\ pipeline.isSaved

DeletedSaved(o) == o.name = "delete" /\ o.outcome = "ok" /\ o.savedAtCall

\* C16: after a successful delete() on a saved pipeline isSaved is false, a
\* Pipeline.get for the slug that follows fails with 'not found', and a
\* run() on the same object that follows saves the pipeline again before it
\* executes.
C16_PipelineDelete ==
    /\ (DeletedSaved(last) /\ op.name # "run") =>
          ~pipeline.isSaved /\ pipeline.id = "null"
    /\ (DeletedSaved(prev) /\ last.name = "get") => last.outcome = "not found"
    /\ (DeletedSaved(prev) /\ last.name = "run") =>
          /\ ~last.savedAtCall
          /\ last.sent # <<>> => last.sent[1] = SaveRequest
          /\ last.outcome = "ok" =>
                SentBefore(last.sent, SaveRequest, ExecuteRequest)

\* C16 witness: run() saved the pipeline, delete() succeeded, and the run()
\* after it saved and executed again.
C16_Witness ==
    /\ DeletedSaved(prev)
    /\ last.name = "run"
    /\ last.outcome = "ok"
    /\ SentBefore(last.sent, SaveRequest, ExecuteRequest)

---------------------------------------------------------------------------
(* Properties of the while loop of chunk(), checked under WindowSpec *)

\* C17: the while loop of chunk() terminates: each iteration moves pos
\* forward by one at least and not past splitIdx, whatever chunkOverlap and
\* the token counts are (zero included), so pos reaches N after N
\* iterations at most and there are never more chunks than sentences.
C17_WindowLoopTerminates ==
    /\ [][(pc = "loop" /\ pc' = "loop") =>
            LET splitIdx == SplitIdx(chunker, sentences, tokenSums, pos)
            IN /\ pos' >= pos + 1
               /\ pos' <= splitIdx
               /\ splitIdx <= N
               /\ Len(chunks') = Len(chunks) + 1]_vars
    /\ [](Len(chunks) <= N)
    /\ [](pos <= N)

\* C17 witness: with chunkOverlap > 0 and a sentence of no tokens the loop
\* has ended with one chunk per sentence, a sentence of one chunk being
\* the first of the next.
C17_Witness ==
    /\ pc = "done"
    /\ chunker.chunkOverlap > 0
    /\ \E i \in 1..N : sentences[i].tokenCount = 0
    /\ N >= 3
    /\ Len(chunks) = N
    /\ \E i \in 1..(Len(chunks) - 1) : SharedSentences(chunks[i], chunks[i + 1]) # {}

\* what the sentences a .. b-1 account for in the overlap: tokenCount + 1 each
OverlapCost(a, b) == RunTokens(a, b) + (b - a)

\* the start of the longest suffix of the sentences p+1 .. s-1 that accounts
\* for chunkOverlap at most (s itself when no sentence fits)
LongestOverlapStart(p, s) ==
    CHOOSE q \in (p + 1)..s :
        /\ OverlapCost(q, s) <= chunker.chunkOverlap
        /\ \A r \in (p + 1)..(q - 1) : OverlapCost(r, s) > chunker.chunkOverlap

\* C18: when chunkOverlap > 0 and sentences remain after the chunk
\* [pos, splitIdx), the next pos is the start of the longest suffix of the
\* sentences pos+1 .. splitIdx-1 whose tokenCount + 1 sum to chunkOverlap at
\* most, so the first sentence of the chunk is not used again and the
\* sentences used again account for no more than chunkOverlap; when
\* chunkOverlap is 0 or no sentence remains, the next pos is splitIdx.
C18_OverlapRule ==
    [][(pc = "loop" /\ pc' = "loop") =>
        LET splitIdx == SplitIdx(chunker, sentences, tokenSums, pos)
        IN IF chunker.chunkOverlap > 0 /\ splitIdx < N
           THEN /\ pos' = LongestOverlapStart(pos, splitIdx)
                /\ pos' > pos
                /\ OverlapCost(pos', splitIdx) <= chunker.chunkOverlap
           ELSE pos' = splitIdx]_vars

\* C18 witness: a chunk of three sentences was pushed with a sentence left
\* after it, and the next chunk starts at the second of the three: the last
\* two account for chunkOverlap exactly, the first is not used again.
C18_Witness ==
    /\ pc = "loop"
    /\ Len(chunks) >= 1
    /\ LET c == chunks[Len(chunks)]
       IN /\ Len(c.sentences) = 3
          /\ ChunkSplit(c) < N
          /\ pos = ChunkPos(c) + 1
          /\ OverlapCost(pos, ChunkSplit(c)) = chunker.chunkOverlap

---------------------------------------------------------------------------
(* Further properties of RecursiveChunker *)

\* C19 (as claimed): for every text and rule list the chunks returned by
\* RecursiveChunker.chunk are ordered by startIndex, every chunk has
\* endIndex = startIndex + text.length, and every chunk's text is
\* text.slice(startIndex, endIndex) of the input.
C19_RecursiveOffsets ==
    rpc = "done" =>
        /\ \A i \in 1..(Len(rchunks) - 1) :
              rchunks[i].startIndex <= rchunks[i + 1].startIndex
        /\ \A i \in 1..Len(rchunks) :
              /\ rchunks[i].endIndex = rchunks[i].startIndex + Len(rchunks[i].text)
              /\ rchunks[i].text =
                    slice(rtext, rchunks[i].startIndex, rchunks[i].endIndex)

---------------------------------------------------------------------------
(* Properties of the recursion of RecursiveChunker, checked under DescentSpec *)

\* the frames of the one chunk() call, the running one last
Stack == calls[1].stack

\* frame f works on the last rule and that rule is a token level
AtTerminalTokenLevel(f) ==
    /\ f.level + 1 = Len(shared.rules)
    /\ IsTokenLevel(shared.rules[f.level + 1])

\* the agreement of the call-by-call recursion with recursiveChunk
DescentAgrees ==
    calls[1].pc = "done" => calls[1].chunks = recursiveChunk(shared, calls[1].text, 0, 0)

---------------------------------------------------------------------------
(* The delimiter level of RecursiveChunker, checked under RecursiveSpec *)

EndsWithDelimiter(piece, delimiters) ==
    \E k \in 1..Len(delimiters) :
        /\ Len(delimiters[k]) <= Len(piece)
        /\ MatchAt(piece, delimiters[k], Len(piece) - Len(delimiters[k]) + 1)

StartsWithDelimiter(piece, delimiters) ==
    \E k \in 1..Len(delimiters) : MatchAt(piece, delimiters[k], 1)

ContainsDelimiter(t, delimiters) ==
    \E k \in 1..Len(delimiters) : \E i \in 1..Len(t) : MatchAt(t, delimiters[k], i)

\* C21 (as claimed): at a delimiter level the text is split only where one
\* of the level's delimiter strings occurs as a whole: with policy prev
\* every piece but the last ends with a delimiter, with policy next every
\* piece but the first starts with one, with policy none there is more than
\* one piece only if a delimiter occurs in the text.
C21_SplitsAtWholeDelimiters ==
    (/\ rpc = "done"
     /\ Len(rchunker.rules) > 0
     /\ rchunker.rules[1].delimiters # undefined
     /\ ~rchunker.rules[1].whitespace) =>
        LET level == rchunker.rules[1]
            pieces == splitText(rchunker, rtext, level)
        IN IF level.includeDelim = "prev"
           THEN \A k \in 1..(Len(pieces) - 1) :
                    EndsWithDelimiter(pieces[k], level.delimiters)
           ELSE IF level.includeDelim = "next"
                THEN \A k \in 2..Len(pieces) :
                        StartsWithDelimiter(pieces[k], level.delimiters)
                ELSE Len(pieces) > 1 => ContainsDelimiter(rtext, level.delimiters)

---------------------------------------------------------------------------
(* Further properties of _splitText, checked under SentenceSpec *)

\* the pieces between the sentinels, before they are folded
RawSplits == split(MarkDelims(chunker, text, chunker.delim), <<sep>>)

\* C22: every fragment _splitText returns is non-empty, and every fragment
\* but the last has minCharactersPerSentence characters at least: a shorter
\* piece is joined with the text that follows it.
C22_ShortFragmentFolding ==
    pc # "entry" =>
        /\ \A k \in 1..Len(Fragments) : Fragments[k] # <<>>
        /\ \A k \in 1..(Len(Fragments) - 1) :
              Len(Fragments[k]) >= chunker.minCharactersPerSentence
        /\ Concat(Fragments) = Concat(RawSplits)

\* C22 witness: with minCharactersPerSentence 2 the one-character first
\* piece was joined with the next one, and two fragments came out of three
\* non-empty pieces.
C22_Witness ==
    /\ pc = "done"
    /\ chunker.minCharactersPerSentence = 2
    /\ Len(RawSplits) >= 3
    /\ \A k \in 1..3 : RawSplits[k] # <<>>
    /\ Len(RawSplits[1]) = 1
    /\ Len(Fragments) = 2
    /\ Fragments[1] = RawSplits[1] \o RawSplits[2]

---------------------------------------------------------------------------
(* SentenceChunker.fromRecipe, checked under CreateSpec *)

\* C23 (as claimed): the chunker fromRecipe returns has the inclusion
\* policy of the recipe when that is 'prev', 'next' or null, and fromRecipe
\* throws when the recipe holds another value; no value of the recipe is
\* replaced by a default.
C23_RecipeInclusionPolicy ==
    (createKind = "recipe" /\ Created /\ options.recipe.include_delim # "undefined") =>
        LET policy == options.recipe.include_delim
        IN /\ (policy \in {"prev", "next", "null"} /\ cpc = "returned") =>
                 instance.includeDelim = policy
           /\ policy \notin {"prev", "next", "null"} => cpc = "threw"

---------------------------------------------------------------------------
(* Termination of recursiveChunk, checked under DescentSpec *)

Depth == Len(shared.rules)

\* larger than the number of pieces of any level
Unbounded == Len(calls[1].text) + 5

\* what is left to do in the k-th call of the stack: nothing once chunk()
\* has returned, everything for a call not yet made, less after each await
\* and after each piece of the for loop
FrameRank(k) ==
    IF calls[1].pc = "done" THEN 0
    ELSE IF k > Len(Stack) THEN Unbounded
    ELSE IF Stack[k].stage = "start" THEN Unbounded - 1
    ELSE IF Stack[k].stage \in {"estimating", "counting"} THEN Unbounded - 2
    ELSE Len(Stack[k].merged) - Stack[k].i + 1

Rank == [k \in 1..(Depth + 1) |-> FrameRank(k)]

\* lexicographic order, the outermost call first
LexLess(a, b) ==
    \E k \in 1..Len(a) :
        /\ a[k] < b[k]
        /\ \A j \in 1..(k - 1) : a[j] = b[j]

\* C24: chunk() terminates for every text and rule list: the k-th nested
\* call of recursiveChunk is at level k - 1, so there are never more than
\* depth + 1 of them; every step of the recursion lowers the rank of the
\* stack in a well-founded order and none fails; a piece that reaches level
\* depth, whatever its size, comes back as one leaf chunk.
C24_RecursionTerminates ==
    /\ [](\A k \in 1..Len(Stack) : Stack[k].level = k - 1)
    /\ [](Len(Stack) <= Depth + 1)
    /\ [](calls[1].pc = "running" =>
            /\ Stack # <<>>
            /\ Stack[Len(Stack)].stage \in {"start", "estimating", "counting", "loop"}
            /\ \A k \in 1..(Len(Stack) - 1) : Stack[k].stage = "awaiting"
            /\ \A k \in 1..Len(Stack) :
                  Stack[k].stage \in {"loop", "awaiting"} =>
                      Len(Stack[k].merged) - Stack[k].i + 1 < Unbounded - 2)
    /\ [][LexLess(Rank', Rank)]_vars
    /\ [](\A k \in 1..Len(Stack) :
            (Stack[k].level = Depth - 1 /\ Stack[k].stage = "loop") =>
                /\ Len(Stack[k].chunks) = Stack[k].i
                /\ \A j \in 1..Stack[k].i :
                      Stack[k].chunks[j].text = Stack[k].merged[j])

\* C24 witness: with two rules the recursion is three calls deep, and the
\* piece at level 2, estimated above chunkSize, is about to be returned as
\* one chunk.
C24_Witness ==
    /\ Depth = 2
    /\ Len(Stack) = 3
    /\ Stack[3].stage = "estimating"
    /\ estimateTokenCount(shared, Stack[3].text) > shared.chunkSize

---------------------------------------------------------------------------
(* Progress of the chunks under overlap *)

\* C25 (as claimed): with chunkOverlap > 0 every chunk after the first ends
\* at a later sentence than the chunk before it, so it holds a sentence the
\* chunk before it does not.
C25_OverlapProgress ==
    chunker.chunkOverlap > 0 =>
        \A i \in 1..(Len(chunks) - 1) :
            ChunkSplit(chunks[i + 1]) > ChunkSplit(chunks[i])

---------------------------------------------------------------------------
(* initWasm, checked under WasmSpec *)

\* C26 (as claimed): whatever the interleaving of the concurrent initWasm()
\* and create() calls, init() is called once at most, and wasmInitialized
\* is true only after a call of init() has completed.
C26_InitAtMostOnce ==
    /\ wasm.started <= 1
    /\ wasmInitialized => wasm.completed >= 1

---------------------------------------------------------------------------
(* Further properties of Pipeline, checked under PipelineSpec *)

\* C28 (as claimed): whenever run() has sent its execute request, the steps
\* the service stores for the slug are the steps the pipeline holds, also
\* when steps were added or reset() was called after the pipeline was saved
\* or fetched.
C28_RemoteStepsCurrent ==
    (op.name = "run" /\ op.stage = "executing") =>
        /\ remote.exists
        /\ remote.steps = pipeline.steps

RunRejected ==
    /\ last.name = "run"
    /\ last.outcome \in {"Either text, filepath, or file must be provided.",
                         "Cannot save pipeline with no steps."}

RunRejectedStep ==
    /\ nops' = nops + 1
    /\ op.stage = "idle"
    /\ op'.stage = "idle"
    /\ RunRejected'

\* C29: a run() that fails for lack of input, or on an unsaved pipeline
\* without steps ('Cannot save pipeline with no steps.'), has sent no
\* request and has left isSaved, the steps and what the service stores as
\* they were; and no run() gets as far as a request without a text, a
\* filepath or a file, or on an unsaved pipeline without steps.
C29_FailingRunChangesNothing ==
    /\ [](RunRejected => last.sent = <<>>)
    /\ [](op.name = "run" =>
            /\ op.input \in {"text", "filepath", "file"}
            /\ op.sent # <<>>
            /\ ~op.savedAtCall => Len(op.body.steps) > 0)
    /\ [][RunRejectedStep =>
            /\ pipeline' = pipeline
            /\ remote' = remote
            /\ last'.outcome = "Cannot save pipeline with no steps." =>
                    ~pipeline.isSaved /\ pipeline.steps = <<>>]_vars

\* C29 witness: run() on a new pipeline without steps failed with 'Cannot
\* save pipeline with no steps.'.
C29_Witness ==
    /\ last.name = "run"
    /\ last.outcome = "Cannot save pipeline with no steps."
    /\ last.sent = <<>>
    /\ ~pipeline.isSaved
    /\ pipeline.steps = <<>>

---------------------------------------------------------------------------
(* Properties of overlapping run() calls, checked under OverlappingRunsSpec *)

RECURSIVE CountSaves(_)
CountSaves(sent) ==
    IF sent = <<>> THEN 0
    ELSE (IF Head(sent) = SaveRequest THEN 1 ELSE 0) + CountSaves(Tail(sent))

RECURSIVE SavesIssued(_)
SavesIssued(cs) ==
    IF cs = {} THEN 0
    ELSE LET c == CHOOSE x \in cs : TRUE
         IN CountSaves(op[c].sent) + CountSaves(last[c].sent) + SavesIssued(cs \ {c})

\* C27 (as claimed): however run() calls on one Pipeline object that starts
\* unsaved interleave, at most one save request (POST /v1/pipeline) is
\* issued for it.
C27_AtMostOneSave ==
    SavesIssued(Runs) <= 1

---------------------------------------------------------------------------
(* Properties of mergeSplits on its own, checked under MergeSpec *)

\* C30 (as claimed): mergeSplits fails whenever splits and tokenCounts have
\* different lengths, also when exactly one of the two is empty; it returns
\* no result for mismatched inputs.
C30_MismatchAlwaysThrows ==
    (rpc = "done" /\ Len(merge.splits) # Len(merge.tokenCounts)) =>
        merge.result = "throw"

=============================================================================
